---- MODULE Spec2Model ----
(***************************************************************************)
(* Full-duplex voice client: the realtime coordinator of web/script.js     *)
(* (src/src/assistant/services/scraper.js, lines 673-1638: WebSocket       *)
(* session, PCM playback worklet, local VAD barge-in, commit throttle)     *)
(* and the transcription-only variant of src/unnamed/part_004 (same        *)
(* session and commit code, forced commit on the remote speech_stopped     *)
(* event, TTS through an <audio> element), together with the stand-alone   *)
(* pcm-player worklet classes of src/unnamed/part_003 and                  *)
(* src/web/pcm-player-processor.js.                                        *)
(*                                                                         *)
(* Two domains: the control domain (event loop: gesture, socket handlers,  *)
(* requestAnimationFrame tick, ScriptProcessor callback) and the render    *)
(* domain (the PCMFeeder AudioWorklet).  The only thing crossing is the    *)
(* worklet's message port, modelled as a FIFO of messages in flight.       *)
(***************************************************************************)
EXTENDS Integers, Sequences, FiniteSets, TLC

\* ---------------------------------------------------------------- bounds
MaxGen == 2          \* response.created events accepted per run
MaxPort == 2         \* messages in flight on the worklet port
MaxBuf == 2          \* chunks waiting in PCMFeeder.buffers
MaxChunkLen == 2     \* samples per decoded chunk (scaled)
Quantum == 2         \* samples per render callback (out.length, scaled)
CaptureBlock == 2    \* samples per onaudioprocess callback (scaled)
SamplesPerFrame == 5 \* samples per append frame at the device rate (scaled)
MaxNow == 600        \* last clock value explored (ms)
TimeStep == 150      \* clock granularity (ms)
MaxAppendedMs == 440 \* cap on appendedMsSinceCommit
MaxPush == 3         \* chunks posted to the worklet per run
FrameSamples16k == 2 \* samples per append frame at 16 kHz (scaled)
MaxCaptured == 12    \* microphone samples followed by index per run
MaxSamples == 3      \* samples per resampler input
MaxRate == 3         \* sample rates offered to the resamplers, in units of 8 kHz
MaxPipes == 2        \* utterances uploaded by the HTTP client per run
MaxPending == 2      \* onSpeechStart calls waiting for their /tts/stop request
MaxMicSamples == 7   \* input samples followed through MicCaptureProcessorV2
MicBlock == 2        \* samples per process call of the capture worklet
MaxClock == 4        \* last value of performance.now() the tracker reads

\* ------------------------------------------------------ program constants
FrameMs == 220           \* duration of one append frame
MinCommitMs == 120       \* maybeCommitToServer: minimum appended audio
MinCommitIntervalMs == 300 \* maybeCommitToServer: minimum interval
SilenceFramesLimit == 30 \* animate: silent ticks before a commit attempt
Scores == {0, 20, 50, 90} \* VAD scores offered per tick, in tenths
\* decoded lengths of the audio.delta payloads offered: none, shortest, longest
ChunkLens == {0, 1, MaxChunkLen}

Variants == {"script", "part004"}

\* the playback worklet classes of the repository: PCMFeeder is the one
\* web/script.js builds; the three pcm-player processors are stand-alone
Worklets == {"PCMFeeder", "PCMPlayer._pullFrame", "PCMPlayer._pullSample",
             "PCMPlayerProcessor"}

\* vadState constants of each variant (thresholdRatio in tenths)
attackFrames(v) == 3
releaseFrames(v) == IF v = "script" THEN 100 ELSE 12
thresholdRatio(v) == IF v = "script" THEN 80 ELSE 30
initialSpeakHold(v) == IF v = "script" THEN 1 ELSE 0

Null == [kind |-> "null"]

\* nothing observed yet: no loud or quiet run, no event
ObsInit ==
  [loudRun |-> 0, quietRun |-> 0, since |-> 0, gap |-> 0, last |-> "", prev |-> ""]

VARIABLES
  variant,      \* which build is running
  micArmed,     \* armMic / setupUserGestureStart: gesture already taken
  micActive,    \* enableMicAndRealtime succeeded
  started,      \* pcmPlayer exists and pcmPlayer.started
  rt,           \* progress of startRealtime: idle, connecting, failed, open, closed
  sock,         \* ws.readyState: none, open, closed
  wsOpen, everAppended, appendedMsSinceCommit, lastCommitAt,
  now,          \* performance.now()
  captureOn,    \* captureNode connected
  accLen,       \* acc.length in startMicPCMStream
  responseGen, activeGen,
  playerGen,    \* pcmPlayer.activeGen
  speaking, speakHold, silenceHold,   \* vadState
  silenceFrames,
  ttsPlaying,   \* part_004: ttsAudio has a source and plays
  port,         \* messages posted to the worklet, not yet delivered
  buffers, cur, readIndex,            \* PCMFeeder
  worklet,      \* the processor class registered on the playback node
  pushSeq,      \* history: chunks posted to the worklet so far
  lastOut,      \* history: the last sample of a chunk that was rendered
  analyser,     \* initAudio succeeded: analyser and audioData exist
  vadObs,       \* history of the VAD ticks, recorded by ObservedAnimateTick
  out,          \* output of the last render callback
  trace,        \* the last step: its event, then its sends and posts in order
  interrupted,  \* history: a barge-in was handled since the last response.created
  bargeGen,     \* history: the generation the local VAD start in progress interrupted, 0 if none
  cancelsForBarge, \* history: response.cancel messages sent for that interruption (saturates at 2)
  cfgSent,      \* history: session.update messages sent on this connection (saturates at 2)
  badSeen,      \* history: an inbound message was dropped as malformed
  acc,          \* startMicPCMStream: acc, as the capture indices it holds
  capSeq,       \* history: samples delivered to onaudioprocess so far
  lastFrames,   \* history: the frames the last onaudioprocess emitted
  rsIn,         \* the arguments of a resampler call
  rsOut,        \* what the call returned, Null before it
  vadSpeaking,  \* web/app.js
  recording,    \* web/app.js
  intentAbort,  \* web/app.js: the controller it refers to, 0 for null
  ttsAbort,     \* web/app.js: the controller it refers to, 0 for undefined
  ctrlSeq,      \* AbortControllers constructed so far
  abortedCtrls, \* the controllers whose signal is aborted
  pipes,        \* uploadChunk calls: the request each waits for and its signal
  stopPending,  \* onSpeechStart calls suspended at await fetch(/tts/stop)
  barged,       \* history: pipelines that were in flight at a speech start
  played,       \* history: pipelines whose reply started TTS playback
  mic,          \* the MicCaptureProcessorV2 node, Null before its construction
  lt            \* the LatencyTracker and the clock it reads

session == <<wsOpen, everAppended, appendedMsSinceCommit, lastCommitAt>>
gens == <<responseGen, activeGen, playerGen>>
vad == <<speaking, speakHold, silenceHold>>
feeder == <<buffers, cur, readIndex>>
boot == <<variant, micArmed, micActive, started>>
hist == <<interrupted, bargeGen, cancelsForBarge>>
play == <<worklet, pushSeq, lastOut>>
probe == <<analyser, vadObs>>
cap == <<acc, capSeq, lastFrames>>
resamp == <<rsIn, rsOut>>
httpc == <<vadSpeaking, recording, intentAbort, ttsAbort, ctrlSeq,
           abortedCtrls, pipes, stopPending, barged, played>>
units == <<mic, lt>>
aux == <<cfgSent, badSeen, cap, resamp, httpc, units>>

vars == <<variant, micArmed, micActive, started, rt, sock, wsOpen, everAppended,
          appendedMsSinceCommit, lastCommitAt, now, captureOn, accLen,
          responseGen, activeGen, playerGen, speaking, speakHold, silenceHold,
          silenceFrames, ttsPlaying, port, buffers, cur, readIndex, out, trace,
          interrupted, bargeGen, cancelsForBarge, worklet, pushSeq, lastOut,
          analyser, vadObs, cfgSent, badSeen, acc, capSeq, lastFrames,
          rsIn, rsOut, vadSpeaking, recording, intentAbort, ttsAbort,
          ctrlSeq, abortedCtrls, pipes, stopPending, barged, played, mic, lt>>

Min(a, b) == IF a < b THEN a ELSE b

\* ------------------------------------------------------------- messages
PushMsg(c) == [type |-> "push", chunk |-> c]
ClearMsg == [type |-> "clear"]
\* a decoded chunk: the generation it was enqueued under, its length, and
\* (history) whether a local VAD start was handled after it was pushed, its
\* number in the order of posting, how many clears were posted after it, and
\* the response whose audio it carries
Chunk(g, n, s) ==
  [kind |-> "chunk", gen |-> g, len |-> n, pre |-> FALSE, seq |-> s, age |-> 0,
   of |-> g]

Sent(type) == "send:" \o type
Posted(type) == "post:" \o type
Has(tr, e) == \E i \in 1..Len(tr) : tr[i] = e
IndexOf(tr, e) == CHOOSE i \in 1..Len(tr) : tr[i] = e

\* ws.send: the message goes out only on an OPEN socket; on a closing or
\* closed socket the browser discards it without throwing
wsSend(type) == IF sock = "open" THEN <<Sent(type)>> ELSE <<>>

\* new LatencyTracker(): currentTurn with every timestamp null (0 here:
\* performance.now() is positive when a handler runs, and the handlers test
\* and subtract timestamps in ways that treat null as 0), the tracker
\* enabled, and (history) what the last call pushed to measurements and
\* reported to the backend
NullTurn ==
  [speechStartTime |-> 0, speechStopEventTime |-> 0,
   transcriptCompleteTime |-> 0, firstTokenTime |-> 0,
   firstAudioChunkTime |-> 0, firstPlaybackTime |-> 0,
   interruptTime |-> 0, audioStopTime |-> 0]
LtInit ==
  [clock |-> 1, enabled |-> TRUE, turn |-> NullTurn, rec |-> {}, report |-> {}]

\* the state of the history variables before anything ran
\* web/app.js at load
HttpInit ==
  /\ vadSpeaking = FALSE /\ recording = FALSE
  /\ intentAbort = 0 /\ ttsAbort = 0
  /\ ctrlSeq = 0 /\ abortedCtrls = {}
  /\ pipes = <<>> /\ stopPending = 0
  /\ barged = {} /\ played = {}

HistInit ==
  /\ cfgSent = 0
  /\ badSeen = FALSE
  /\ acc = <<>> /\ capSeq = 0 /\ lastFrames = <<>>
  /\ HttpInit
  /\ mic = Null
  /\ lt = LtInit

\* no resampler call is in progress
AuxInit ==
  /\ HistInit
  /\ rsIn = [x |-> <<>>, from |-> 1, to |-> 1] /\ rsOut = Null

Init ==
  /\ variant \in Variants
  /\ micArmed = FALSE /\ micActive = FALSE /\ started = FALSE
  /\ rt = "idle" /\ sock = "none"
  /\ wsOpen = FALSE /\ everAppended = FALSE
  /\ appendedMsSinceCommit = 0 /\ lastCommitAt = 0
  /\ now = 0
  /\ captureOn = FALSE /\ accLen = 0
  /\ responseGen = 0 /\ activeGen = 0 /\ playerGen = 0
  /\ speaking = FALSE /\ speakHold = initialSpeakHold(variant) /\ silenceHold = 0
  /\ silenceFrames = 0
  /\ ttsPlaying = FALSE
  /\ port = <<>> /\ buffers = <<>> /\ cur = Null /\ readIndex = 0
  /\ out = <<>>
  /\ trace = <<>>
  /\ interrupted = FALSE /\ bargeGen = 0 /\ cancelsForBarge = 0
  /\ worklet = "PCMFeeder" /\ pushSeq = 0 /\ lastOut = Null
  /\ analyser = TRUE /\ vadObs = ObsInit
  /\ AuxInit

\* ------------------------------------------------ the playback worklets
\* one sample of the render output: the chunk it was read from and its
\* position in that chunk
Sample(c, i) ==
  [val |-> "pcm", gen |-> c.gen, pre |-> c.pre, seq |-> c.seq, idx |-> i,
   of |-> c.len, age |-> c.age]
Silence ==
  [val |-> "zero", gen |-> 0, pre |-> FALSE, seq |-> 0, idx |-> 0, of |-> 0, age |-> 0]
\* what a Float32Array stores when it is assigned undefined
NaN ==
  [val |-> "nan", gen |-> 0, pre |-> FALSE, seq |-> 0, idx |-> 0, of |-> 0, age |-> 0]
Zeros(n) == [k \in 1..n |-> Silence]

\* PCMFeeder.process: the while loop over out
RECURSIVE processLoop(_, _, _, _, _)
processLoop(i, o, bufs, c, r) ==
  IF i >= Quantum THEN [out |-> o, buffers |-> bufs, cur |-> c, readIndex |-> r]
  ELSE IF c = Null \/ r >= c.len
       THEN IF bufs = <<>>
            THEN [out |-> Zeros(Quantum), buffers |-> bufs, cur |-> Null, readIndex |-> 0]
            ELSE processLoop(i, o, Tail(bufs), Head(bufs), 0)
       ELSE LET take == Min(Quantum - i, c.len - r)
            IN processLoop(i + take, o \o [k \in 1..take |-> Sample(c, r + k)],
                           bufs, c, r + take)

\* part_003 PCMPlayer._pullFrame(length), with length = Quantum
RECURSIVE pullFrame(_, _, _, _, _)
pullFrame(written, o, queue, current, r) ==
  IF written >= Quantum
  THEN [out |-> o, buffers |-> queue, cur |-> current, readIndex |-> r]
  ELSE IF current = Null \/ r >= current.len
       THEN IF queue = <<>>
            THEN [out |-> o \o Zeros(Quantum - written), buffers |-> queue,
                  cur |-> Null, readIndex |-> 0]
            ELSE pullFrame(written, o, Tail(queue), Head(queue), 0)
       ELSE LET toCopy == Min(Quantum - written, current.len - r)
            IN pullFrame(written + toCopy,
                         o \o [k \in 1..toCopy |-> Sample(current, r + k)],
                         queue, current, r + toCopy)

\* web/pcm-player-processor.js PCMPlayer._pullSample: the chunk being read is
\* queue[0]
pullSample(queue, r) ==
  IF queue = <<>> THEN [v |-> Silence, queue |-> queue, readIndex |-> r]
  ELSE LET curr == Head(queue)
           v == IF r < curr.len THEN Sample(curr, r + 1) ELSE Silence
       IN IF r + 1 >= curr.len
          THEN [v |-> v, queue |-> Tail(queue), readIndex |-> 0]
          ELSE [v |-> v, queue |-> queue, readIndex |-> r + 1]

\* web/pcm-player-processor.js PCMPlayer.process: the for loop over ch0
RECURSIVE pullSampleLoop(_, _, _, _)
pullSampleLoop(i, o, queue, r) ==
  IF i >= Quantum THEN [out |-> o, buffers |-> queue, cur |-> Null, readIndex |-> r]
  ELSE LET s == pullSample(queue, r)
       IN pullSampleLoop(i + 1, Append(o, s.v), s.queue, s.readIndex)

\* part_003 PCMPlayerProcessor.process: the while loop over out
RECURSIVE playerProcessorLoopNoEmptyTest(_, _, _, _)
playerProcessorLoopNoEmptyTest(i, o, queue, readIdx) ==
  IF i >= Quantum THEN [out |-> o, buffers |-> queue, cur |-> Null, readIndex |-> readIdx]
  ELSE IF queue = <<>>
       THEN playerProcessorLoopNoEmptyTest(i + 1, Append(o, NaN), queue, readIdx)
       ELSE LET chunk == Head(queue)
                v == IF readIdx < chunk.len THEN Sample(chunk, readIdx + 1) ELSE NaN
            IN IF readIdx + 1 >= chunk.len
               THEN playerProcessorLoopNoEmptyTest(i + 1, Append(o, v), Tail(queue), 0)
               ELSE playerProcessorLoopNoEmptyTest(i + 1, Append(o, v), queue, readIdx + 1)
RECURSIVE playerProcessorLoop(_, _, _, _)
playerProcessorLoop(i, o, queue, readIdx) ==
  IF i >= Quantum THEN [out |-> o, buffers |-> queue, cur |-> Null, readIndex |-> readIdx]
  ELSE IF queue = <<>>
       THEN playerProcessorLoop(i + 1, Append(o, Silence), queue, readIdx)
       ELSE LET chunk == Head(queue)
                v == IF readIdx < chunk.len THEN Sample(chunk, readIdx + 1) ELSE NaN
            IN IF readIdx + 1 >= chunk.len
               THEN playerProcessorLoop(i + 1, Append(o, v), Tail(queue), 0)
               ELSE playerProcessorLoop(i + 1, Append(o, v), queue, readIdx + 1)

\* process() of the registered class
workletProcess ==
  CASE worklet = "PCMFeeder" -> processLoop(0, <<>>, buffers, cur, readIndex)
    [] worklet = "PCMPlayer._pullFrame" -> pullFrame(0, <<>>, buffers, cur, readIndex)
    [] worklet = "PCMPlayer._pullSample" -> pullSampleLoop(0, <<>>, buffers, readIndex)
    [] worklet = "PCMPlayerProcessor" -> playerProcessorLoop(0, <<>>, buffers, readIndex)

\* port.onmessage, type 'push' / 'audio': is the chunk queued; the two
\* PCMPlayer classes skip an empty Float32Array
workletAccepts(c) ==
  IF worklet \in {"PCMPlayer._pullFrame", "PCMPlayer._pullSample"}
  THEN c.len > 0
  ELSE TRUE

\* this.buffers.push / this.queue.push
feederPushFront(bufs, c) == <<c>> \o bufs
feederPush(bufs, c) == Append(bufs, c)

\* port.onmessage, type 'clear' / 'flush': the worklet's fields afterwards
feederClearKeepsQueue == [buffers |-> buffers, cur |-> Null, readIndex |-> 0]
feederClearKeepsCur == [buffers |-> <<>>, cur |-> cur, readIndex |-> readIndex]
feederClear == [buffers |-> <<>>, cur |-> Null, readIndex |-> 0]

\* port.onmessage: the worklet takes the oldest message in flight
WorkletOnMessage ==
  /\ port # <<>>
  /\ LET d == Head(port) IN
       IF d.type = "push"
       THEN IF workletAccepts(d.chunk)
            THEN /\ Len(buffers) < MaxBuf
                 /\ buffers' = feederPush(buffers, d.chunk)
                 /\ UNCHANGED <<cur, readIndex>>
            ELSE UNCHANGED <<buffers, cur, readIndex>>
       ELSE /\ buffers' = feederClear.buffers
            /\ cur' = feederClear.cur
            /\ readIndex' = feederClear.readIndex
  /\ port' = Tail(port)
  /\ out' = <<>>
  /\ trace' = <<"worklet:message", "recv:" \o Head(port).type>>
  /\ UNCHANGED <<boot, rt, sock, session, now, captureOn, accLen, gens, vad,
                 silenceFrames, ttsPlaying, hist, play, probe, aux>>

\* the last sample of a chunk in a render output, prev if it has none
RECURSIVE LastPcm(_, _)
LastPcm(o, prev) ==
  IF o = <<>> THEN prev
  ELSE IF o[Len(o)].val = "pcm" THEN o[Len(o)]
  ELSE LastPcm(SubSeq(o, 1, Len(o) - 1), prev)

\* what is remembered of a rendered sample: its chunk and its position
Rendered(x) ==
  IF x = Null THEN Null
  ELSE [kind |-> "sample", gen |-> x.gen, seq |-> x.seq, idx |-> x.idx, of |-> x.of]

\* process: one render callback
Process ==
  /\ started
  /\ LET res == workletProcess IN
       /\ out' = res.out
       /\ buffers' = res.buffers
       /\ cur' = res.cur
       /\ readIndex' = res.readIndex
       /\ lastOut' = Rendered(LastPcm(res.out, lastOut))
  /\ trace' = <<"worklet:process">>
  /\ UNCHANGED <<boot, rt, sock, session, now, captureOn, accLen, gens, vad,
                 silenceFrames, ttsPlaying, port, hist, worklet, pushSeq, probe, aux>>

\* ------------------------------------------------------------ PCMPlayer
MarkChunk(c) == [c EXCEPT !.pre = TRUE]
MarkMsg(d) == IF d.type = "push" THEN PushMsg(MarkChunk(d.chunk)) ELSE d
MarkSeq(q) == [k \in 1..Len(q) |-> MarkChunk(q[k])]
MarkPort(q) == [k \in 1..Len(q) |-> MarkMsg(q[k])]

\* history: one more clear was posted after these chunks
AgeChunk(c) == [c EXCEPT !.age = Min(@ + 1, MaxPort + 1)]
AgeMsg(d) == IF d.type = "push" THEN PushMsg(AgeChunk(d.chunk)) ELSE d
AgeSeq(q) == [k \in 1..Len(q) |-> AgeChunk(q[k])]
AgePort(q) == [k \in 1..Len(q) |-> AgeMsg(q[k])]
AgedBuffers(fx, b) == IF Has(fx, Posted("clear")) THEN AgeSeq(b) ELSE b
AgedCur(fx, c) == IF Has(fx, Posted("clear")) /\ c # Null THEN AgeChunk(c) ELSE c

\* the posts of a handler, applied to the port in order
RECURSIVE ApplyPosts(_, _, _)
ApplyPosts(p, tr, chunk) ==
  IF tr = <<>> THEN p
  ELSE LET p1 == IF Head(tr) = Posted("clear") THEN Append(AgePort(p), ClearMsg)
                 ELSE IF Head(tr) = Posted("push") THEN Append(p, PushMsg(chunk))
                 ELSE p
       IN ApplyPosts(p1, Tail(tr), chunk)

\* PCMPlayer.clear
playerClear == IF started THEN <<Posted("clear")>> ELSE <<>>

\* PCMPlayer.enqueueBase64PCM16(b64, gen); n = number of decoded samples,
\* 0 for an absent payload
enqueueBase64PCM16(n, gen) ==
  IF ~started \/ n = 0 THEN <<>>
  ELSE IF gen # playerGen THEN <<>>
  ELSE <<Posted("push")>>

\* hardStopAssistantAudio: its sends and posts, in program order
hardStopClearsOnlyIfOpen ==
  IF wsOpen THEN wsSend("response.cancel") \o playerClear ELSE <<>>
hardStopAssistantAudio ==
  (IF wsOpen THEN wsSend("response.cancel") ELSE <<>>) \o playerClear

\* ------------------------------------------------------------------ VAD
vadDecisionNoReleaseReset(score) ==
  IF ~speaking
  THEN IF score > thresholdRatio(variant)
       THEN IF speakHold + 1 >= attackFrames(variant)
            THEN [speaking |-> TRUE, speakHold |-> 0, silenceHold |-> 0, change |-> "start"]
            ELSE [speaking |-> FALSE, speakHold |-> speakHold + 1, silenceHold |-> 0, change |-> "none"]
       ELSE [speaking |-> FALSE, speakHold |-> 0, silenceHold |-> 0, change |-> "none"]
  ELSE IF score * 10 < thresholdRatio(variant) * 6
       THEN IF silenceHold + 1 >= releaseFrames(variant)
            THEN [speaking |-> FALSE, speakHold |-> 0, silenceHold |-> 0, change |-> "end"]
            ELSE [speaking |-> TRUE, speakHold |-> 0, silenceHold |-> silenceHold + 1, change |-> "none"]
       ELSE [speaking |-> TRUE, speakHold |-> 0, silenceHold |-> silenceHold, change |-> "none"]
vadDecisionHeldEnd(score) ==
  IF ~speaking
  THEN IF score > thresholdRatio(variant)
       THEN IF speakHold + 1 >= attackFrames(variant)
            THEN [speaking |-> TRUE, speakHold |-> 0, silenceHold |-> 0, change |-> "start"]
            ELSE [speaking |-> FALSE, speakHold |-> speakHold + 1, silenceHold |-> 0, change |-> "none"]
       ELSE [speaking |-> FALSE, speakHold |-> 0, silenceHold |-> 0, change |-> "none"]
  ELSE IF score * 10 < thresholdRatio(variant) * 6
       THEN IF silenceHold + 1 >= releaseFrames(variant)
            THEN [speaking |-> TRUE, speakHold |-> 0, silenceHold |-> 0, change |-> "end"]
            ELSE [speaking |-> TRUE, speakHold |-> 0, silenceHold |-> silenceHold + 1, change |-> "none"]
       ELSE [speaking |-> TRUE, speakHold |-> 0, silenceHold |-> 0, change |-> "none"]
vadDecisionEarlyRelease(score) ==
  IF ~speaking
  THEN IF score > thresholdRatio(variant)
       THEN IF speakHold + 1 >= attackFrames(variant)
            THEN [speaking |-> TRUE, speakHold |-> 0, silenceHold |-> 0, change |-> "start"]
            ELSE [speaking |-> FALSE, speakHold |-> speakHold + 1, silenceHold |-> 0, change |-> "none"]
       ELSE [speaking |-> FALSE, speakHold |-> 0, silenceHold |-> 0, change |-> "none"]
  ELSE IF score * 10 < thresholdRatio(variant) * 6
       THEN IF silenceHold + 2 >= releaseFrames(variant)
            THEN [speaking |-> FALSE, speakHold |-> 0, silenceHold |-> 0, change |-> "end"]
            ELSE [speaking |-> TRUE, speakHold |-> 0, silenceHold |-> silenceHold + 1, change |-> "none"]
       ELSE [speaking |-> TRUE, speakHold |-> 0, silenceHold |-> 0, change |-> "none"]
\* vadDecision without vadState.speakHold = 0 on the attack transition
vadDecisionKeepsSpeakHold(score) ==
  IF ~speaking
  THEN IF score > thresholdRatio(variant)
       THEN IF speakHold + 1 >= attackFrames(variant)
            THEN [speaking |-> TRUE, speakHold |-> speakHold + 1, silenceHold |-> 0, change |-> "start"]
            ELSE [speaking |-> FALSE, speakHold |-> speakHold + 1, silenceHold |-> 0, change |-> "none"]
       ELSE [speaking |-> FALSE, speakHold |-> 0, silenceHold |-> 0, change |-> "none"]
  ELSE IF score * 10 < thresholdRatio(variant) * 6
       THEN IF silenceHold + 1 >= releaseFrames(variant)
            THEN [speaking |-> FALSE, speakHold |-> 0, silenceHold |-> 0, change |-> "end"]
            ELSE [speaking |-> TRUE, speakHold |-> 0, silenceHold |-> silenceHold + 1, change |-> "none"]
       ELSE [speaking |-> TRUE, speakHold |-> 0, silenceHold |-> 0, change |-> "none"]
\* vadTick, the hysteresis on a frame of the given score (in tenths)
vadDecision(score) ==
  IF ~speaking
  THEN IF score > thresholdRatio(variant)
       THEN IF speakHold + 1 >= attackFrames(variant)
            THEN [speaking |-> TRUE, speakHold |-> 0, silenceHold |-> 0, change |-> "start"]
            ELSE [speaking |-> FALSE, speakHold |-> speakHold + 1, silenceHold |-> 0, change |-> "none"]
       ELSE [speaking |-> FALSE, speakHold |-> 0, silenceHold |-> 0, change |-> "none"]
  ELSE IF score * 10 < thresholdRatio(variant) * 6
       THEN IF silenceHold + 1 >= releaseFrames(variant)
            THEN [speaking |-> FALSE, speakHold |-> 0, silenceHold |-> 0, change |-> "end"]
            ELSE [speaking |-> TRUE, speakHold |-> 0, silenceHold |-> silenceHold + 1, change |-> "none"]
       ELSE [speaking |-> TRUE, speakHold |-> 0, silenceHold |-> 0, change |-> "none"]

\* vadTick: without analyser or audioData it returns false and touches nothing
vadTick(score) ==
  IF ~analyser
  THEN [speaking |-> speaking, speakHold |-> speakHold, silenceHold |-> silenceHold,
        change |-> "none"]
  ELSE vadDecision(score)

\* ------------------------------------------------------------- commits
\* maybeCommitToServer(force): does it reach ws.send
commitSendsNoMinMs(force) ==
  /\ wsOpen /\ sock = "open"
  /\ everAppended
  /\ force \/ now - lastCommitAt >= MinCommitIntervalMs
commitSendsNoInterval(force) ==
  /\ wsOpen /\ sock = "open"
  /\ everAppended
  /\ force \/ appendedMsSinceCommit >= MinCommitMs
commitSends(force) ==
  /\ wsOpen /\ sock = "open"
  /\ everAppended
  /\ force \/ (appendedMsSinceCommit >= MinCommitMs /\ now - lastCommitAt >= MinCommitIntervalMs)

\* maybeCommitToServer(force) as a step on the session, tr0 = the trace so far
maybeCommitToServer(force, tr0) ==
  IF commitSends(force)
  THEN /\ trace' = tr0 \o wsSend("input_audio_buffer.commit")
       /\ lastCommitAt' = now
       /\ appendedMsSinceCommit' = 0
       /\ UNCHANGED <<wsOpen, everAppended>>
  ELSE /\ trace' = tr0
       /\ UNCHANGED session

\* ------------------------------------------------------ boot and socket
\* armMic / setupUserGestureStart.start with enableMicAndRealtime: the first
\* gesture; ok = getUserMedia granted.  startRealtime is launched, not awaited.
Gesture(ok) ==
  /\ ~micArmed
  /\ micArmed' = TRUE
  /\ IF ok
     THEN /\ micActive' = TRUE
          /\ started' = (variant = "script")
          /\ rt' = "connecting"
     ELSE UNCHANGED <<micActive, started, rt>>
  /\ trace' = <<"gesture">>
  /\ out' = <<>>
  /\ UNCHANGED <<variant, sock, session, now, captureOn, accLen, gens, vad,
                 silenceFrames, ttsPlaying, port, feeder, hist, play, probe, aux>>

\* startRealtime: the token request or the socket fails before it opens
ConnectFail ==
  /\ rt = "connecting"
  /\ rt' = "failed"
  /\ trace' = <<"connect:failed">>
  /\ out' = <<>>
  /\ UNCHANGED <<boot, sock, session, now, captureOn, accLen, gens, vad,
                 silenceFrames, ttsPlaying, port, feeder, hist, play, probe, aux>>

\* OnOpen without its session.update
OnOpenNoConfig ==
  /\ rt = "connecting"
  /\ rt' = "open" /\ sock' = "open"
  /\ wsOpen' = TRUE /\ everAppended' = FALSE
  /\ appendedMsSinceCommit' = 0 /\ lastCommitAt' = now
  /\ captureOn' = TRUE /\ accLen' = 0
  /\ trace' = <<"ws:open">>
  /\ out' = <<>>
  /\ UNCHANGED <<boot, now, gens, vad, silenceFrames, ttsPlaying, port,
                 feeder, hist, play, probe, aux>>

\* startRealtime after the socket opened (part_004: ws.onopen): session
\* variables, session.update, startMicPCMStream, handlers installed
OnOpen ==
  /\ rt = "connecting"
  /\ rt' = "open" /\ sock' = "open"
  /\ wsOpen' = TRUE /\ everAppended' = FALSE
  /\ appendedMsSinceCommit' = 0 /\ lastCommitAt' = now
  /\ captureOn' = TRUE /\ accLen' = 0
  /\ trace' = <<"ws:open", Sent("session.update")>>
  /\ cfgSent' = Min(2, cfgSent + 1)
  /\ out' = <<>>
  /\ acc' = <<>>
  /\ UNCHANGED <<boot, now, gens, vad, silenceFrames, ttsPlaying, port,
                 feeder, hist, play, probe, badSeen, capSeq, lastFrames,
                 resamp, httpc, units>>

\* the connection ends (remote close, local close or network failure):
\* readyState leaves OPEN before the close event is dispatched
SocketDrop ==
  /\ sock = "open"
  /\ sock' = "closed"
  /\ trace' = <<"socket:drop">>
  /\ out' = <<>>
  /\ UNCHANGED <<boot, rt, session, now, captureOn, accLen, gens, vad,
                 silenceFrames, ttsPlaying, port, feeder, hist, play, probe, aux>>

\* ws.onclose without its stopMicPCMStream
WsOnCloseKeepsCapture ==
  /\ rt = "open" /\ sock = "closed"
  /\ rt' = "closed"
  /\ wsOpen' = FALSE /\ everAppended' = FALSE /\ appendedMsSinceCommit' = 0
  /\ trace' = <<"ws:close">>
  /\ out' = <<>>
  /\ UNCHANGED <<boot, sock, lastCommitAt, now, captureOn, accLen, gens, vad,
                 silenceFrames, ttsPlaying, port, feeder, hist, play, probe, aux>>

\* ws.onclose, with stopMicPCMStream
WsOnClose ==
  /\ rt = "open" /\ sock = "closed"
  /\ rt' = "closed"
  /\ wsOpen' = FALSE /\ everAppended' = FALSE /\ appendedMsSinceCommit' = 0
  /\ captureOn' = FALSE
  /\ trace' = <<"ws:close">>
  /\ out' = <<>>
  /\ UNCHANGED <<boot, sock, lastCommitAt, now, accLen, gens, vad,
                 silenceFrames, ttsPlaying, port, feeder, hist, play, probe, aux>>

\* performance.now() advances
Tick ==
  /\ now + TimeStep <= MaxNow
  /\ now' = now + TimeStep
  /\ trace' = <<"clock">>
  /\ out' = <<>>
  /\ UNCHANGED <<boot, rt, sock, session, captureOn, accLen, gens, vad,
                 silenceFrames, ttsPlaying, port, feeder, hist, play, probe, aux>>

\* captureNode.onaudioprocess: one block of microphone samples, as far as
\* the session and the length of acc go
onaudioprocess ==
  /\ captureOn
  /\ out' = <<>>
  /\ IF ~wsOpen \/ sock # "open"
     THEN /\ trace' = <<"mic:block">>
          /\ UNCHANGED <<session, accLen>>
     ELSE LET total == accLen + CaptureBlock
              frames == total \div SamplesPerFrame
          IN /\ appendedMsSinceCommit + frames * FrameMs <= MaxAppendedMs
             /\ accLen' = total % SamplesPerFrame
             /\ trace' = <<"mic:block">> \o
                   [k \in 1..frames |-> Sent("input_audio_buffer.append")]
             /\ everAppended' = (everAppended \/ frames > 0)
             /\ appendedMsSinceCommit' = appendedMsSinceCommit + frames * FrameMs
             /\ UNCHANGED <<wsOpen, lastCommitAt>>
  /\ UNCHANGED <<boot, rt, sock, now, captureOn, gens, vad, silenceFrames,
                 ttsPlaying, port, feeder, hist, play, probe, cfgSent, badSeen,
                 resamp, httpc, units>>

OnAudioProcess == onaudioprocess /\ UNCHANGED cap

\* Math.round(a / b) for a >= 0, b > 0
Round(a, b) == (2 * a + b) \div (2 * b)

\* The device and wire rates, in samples per frame duration: with
\* samplesPerFrame = floor(inRate * 0.22) a whole number of samples, inRate
\* is to 16000 as SamplesPerFrame is to FrameSamples16k.
InRate == SamplesPerFrame
OutRate == FrameSamples16k

\* downsampleTo16k(buffer, inRate), keeping for every output sample the
\* input samples it averages (an empty group: the output sample is 0);
\* ratio = InRate / OutRate
downsampleTo16kShort(buffer) ==
  LET newLen == Round(Len(buffer) * OutRate, InRate) - 1
  IN [idx \in 1..newLen |->
        LET pos == Round((idx - 1) * InRate, OutRate)
            nextPos == Round(idx * InRate, OutRate)
        IN [i \in 1..(Min(Len(buffer), nextPos) - pos) |-> buffer[pos + i]]]
downsampleTo16k(buffer) ==
  IF InRate = OutRate THEN [k \in 1..Len(buffer) |-> <<buffer[k]>>]
  ELSE LET newLen == Round(Len(buffer) * OutRate, InRate)
       IN [idx \in 1..newLen |->
             LET pos == Round((idx - 1) * InRate, OutRate)
                 nextPos == Round(idx * InRate, OutRate)
             IN [i \in 1..(Min(Len(buffer), nextPos) - pos) |-> buffer[pos + i]]]

\* the while loop of onaudioprocess: frames cut from the front of acc
RECURSIVE captureLoop(_, _)
captureLoop(a, frames) ==
  IF Len(a) >= SamplesPerFrame
  THEN captureLoop(SubSeq(a, SamplesPerFrame + 1, Len(a)),
                   Append(frames, downsampleTo16k(SubSeq(a, 1, SamplesPerFrame))))
  ELSE [acc |-> a, frames |-> frames]

\* the block e.inputBuffer.getChannelData(0), as capture indices
InputBlock == [k \in 1..CaptureBlock |-> capSeq + k]

\* onaudioprocess with the samples followed by index
ObservedAudioProcess ==
  /\ onaudioprocess
  /\ capSeq + CaptureBlock <= MaxCaptured
  /\ capSeq' = capSeq + CaptureBlock
  /\ IF ~wsOpen \/ sock # "open"
     THEN /\ acc' = acc
          /\ lastFrames' = <<>>
     ELSE LET r == captureLoop(acc \o InputBlock, <<>>)
          IN /\ acc' = r.acc
             /\ lastFrames' = r.frames

\* ------------------------------------------------------------- animate
Cancels(fx) == IF Has(fx, Sent("response.cancel")) THEN 1 ELSE 0

\* animate: the local VAD part of one frame, for a frame of the given score
animate(score) ==
  /\ micActive
  /\ out' = <<>>
  /\ LET v == vadTick(score)
         ev == "animate:" \o v.change
     IN /\ speaking' = v.speaking
        /\ speakHold' = v.speakHold
        /\ silenceHold' = v.silenceHold
        /\ IF v.change = "start"
           THEN /\ silenceFrames' = 0
                /\ IF variant = "script"
                   THEN LET fx == hardStopAssistantAudio IN
                        /\ trace' = <<ev>> \o fx
                        /\ port' = ApplyPosts(MarkPort(port), fx, Null)
                        /\ Len(port') <= MaxPort
                        /\ buffers' = AgedBuffers(fx, MarkSeq(buffers))
                        /\ cur' = AgedCur(fx, IF cur = Null THEN Null ELSE MarkChunk(cur))
                        /\ interrupted' = TRUE
                        /\ bargeGen' = activeGen
                        /\ cancelsForBarge' = IF activeGen = 0 THEN 0 ELSE Cancels(fx)
                        /\ UNCHANGED <<ttsPlaying, readIndex>>
                   ELSE /\ trace' = <<ev>>
                        /\ ttsPlaying' = FALSE
                        /\ UNCHANGED <<port, feeder, hist>>
                /\ UNCHANGED session
           ELSE /\ bargeGen' = IF v.change = "end" THEN 0 ELSE bargeGen
                /\ cancelsForBarge' = IF v.change = "end" THEN 0 ELSE cancelsForBarge
                /\ UNCHANGED <<interrupted, ttsPlaying, port, feeder>>
                /\ IF v.speaking
                   THEN /\ silenceFrames' = 0
                        /\ trace' = <<ev>>
                        /\ UNCHANGED session
                   ELSE IF silenceFrames + 1 > SilenceFramesLimit
                        THEN /\ silenceFrames' = 0
                             /\ maybeCommitToServer(FALSE, <<ev>>)
                        ELSE /\ silenceFrames' = silenceFrames + 1
                             /\ trace' = <<ev>>
                             /\ UNCHANGED session
  /\ UNCHANGED <<boot, rt, sock, now, captureOn, accLen, gens, play, analyser, aux>>

AnimateTick(score) == animate(score) /\ UNCHANGED vadObs

\* history of the VAD ticks after one more tick of the given score: the run
\* of ticks above thresholdRatio while not speaking, the run of ticks below
\* 0.6 x thresholdRatio while speaking, the ticks since the last event, and
\* the last two events; gap is the number of ticks from the previous event
\* to the event of this tick, 0 on a tick without event
Observe(score) ==
  LET v == vadTick(score)
      loud == analyser /\ score > thresholdRatio(variant)
      quiet == analyser /\ score * 10 < thresholdRatio(variant) * 6
      ev == v.change # "none"
  IN [loudRun |-> IF ~speaking /\ loud
                  THEN Min(vadObs.loudRun + 1, attackFrames(variant)) ELSE 0,
      quietRun |-> IF speaking /\ quiet
                   THEN Min(vadObs.quietRun + 1, releaseFrames(variant)) ELSE 0,
      since |-> IF ev THEN 0 ELSE Min(vadObs.since + 1, releaseFrames(variant)),
      gap |-> IF ev THEN Min(vadObs.since + 1, releaseFrames(variant)) ELSE 0,
      last |-> IF ev THEN v.change ELSE vadObs.last,
      prev |-> IF ev THEN vadObs.last ELSE vadObs.prev]

\* animate, with the tick recorded
ObservedAnimateTick(score) == animate(score) /\ vadObs' = Observe(score)

\* -------------------------------------------------------- ws.onmessage
Receiving == rt = "open" /\ sock = "open"

\* bumpGeneration without pcmPlayer.setGeneration
bumpGenerationPlayerStale ==
  /\ responseGen' = responseGen + 1
  /\ activeGen' = responseGen + 1
  /\ playerGen' = playerGen

\* bumpGeneration
bumpGeneration ==
  /\ responseGen' = responseGen + 1
  /\ activeGen' = responseGen + 1
  /\ playerGen' = IF started THEN responseGen + 1 ELSE playerGen

\* response.created
WsResponseCreated ==
  /\ Receiving /\ variant = "script"
  /\ responseGen < MaxGen
  /\ bumpGeneration
  /\ LET fx == playerClear IN
       /\ trace' = <<"ws:response.created">> \o fx
       /\ port' = ApplyPosts(port, fx, Null)
       /\ Len(port') <= MaxPort
       /\ buffers' = AgedBuffers(fx, buffers)
       /\ cur' = AgedCur(fx, cur)
  /\ interrupted' = FALSE /\ bargeGen' = 0 /\ cancelsForBarge' = 0
  /\ out' = <<>>
  /\ UNCHANGED <<boot, rt, sock, session, now, captureOn, accLen, vad,
                 silenceFrames, ttsPlaying, readIndex, play, probe, aux>>

\* response.output_audio.delta / response.audio.delta carrying n decoded
\* samples (0: no payload) of response r.  The message names no response and
\* the handler reads none: it passes the current activeGen to the player.
audioDelta(n, r) ==
  /\ Receiving /\ variant = "script"
  /\ responseGen >= 1
  /\ LET fx == enqueueBase64PCM16(n, activeGen) IN
       /\ trace' = <<"ws:audio.delta">> \o fx
       /\ port' = ApplyPosts(port, fx,
                             [Chunk(activeGen, n, pushSeq + 1) EXCEPT !.of = r])
       /\ Len(port') <= MaxPort
       /\ IF Has(fx, Posted("push"))
          THEN pushSeq < MaxPush /\ pushSeq' = pushSeq + 1
          ELSE UNCHANGED pushSeq
  /\ out' = <<>>
  /\ UNCHANGED <<boot, rt, sock, session, now, captureOn, accLen, gens, vad,
                 silenceFrames, ttsPlaying, feeder, hist, worklet, lastOut, probe, aux>>

\* a delta of the response created last
WsAudioDelta(n) == audioDelta(n, responseGen)

\* a delta of the response before it, delivered after the response.created
\* of its successor
WsLateAudioDelta(n) == responseGen >= 2 /\ audioDelta(n, responseGen - 1)

\* An audio payload as the decoder sees it: whether its characters are
\* base64 and how many bytes they stand for.  atob throws
\* InvalidCharacterError on other characters; new Int16Array(view.buffer)
\* throws RangeError on an odd number of bytes.
decodePCM16(p) ==
  IF p.chars # "base64" THEN "InvalidCharacterError"
  ELSE IF p.bytes % 2 = 1 THEN "RangeError"
  ELSE "decoded"

BadPayloads ==
  {[chars |-> "other", bytes |-> 0], [chars |-> "base64", bytes |-> 1],
   [chars |-> "base64", bytes |-> 3]}

\* ws.onmessage on a frame that JSON.parse rejects, closing the socket
WsUnparseableCloses ==
  /\ Receiving
  /\ sock' = "closed"
  /\ trace' = <<"ws:unparseable">>
  /\ out' = <<>>
  /\ UNCHANGED <<boot, rt, session, now, captureOn, accLen, gens, vad,
                 silenceFrames, ttsPlaying, port, feeder, hist, play, probe,
                 cfgSent, cap, resamp, httpc, units>>
  /\ badSeen' = TRUE

\* ws.onmessage on a frame that JSON.parse rejects: catch { return; }
WsUnparseable ==
  /\ Receiving
  /\ trace' = <<"ws:unparseable">>
  /\ out' = <<>>
  /\ UNCHANGED <<boot, rt, sock, session, now, captureOn, accLen, gens, vad,
                 silenceFrames, ttsPlaying, port, feeder, hist, play, probe,
                 cfgSent, cap, resamp, httpc, units>>
  /\ badSeen' = TRUE

\* response.output_audio.delta whose payload p does not decode:
\* enqueueBase64PCM16 throws out of ws.onmessage before it posts anything;
\* the exception is reported and the socket keeps delivering
WsAudioDeltaUndecodable(p) ==
  /\ Receiving /\ variant = "script"
  /\ started /\ activeGen = playerGen
  /\ decodePCM16(p) # "decoded"
  /\ trace' = <<"ws:audio.delta:" \o decodePCM16(p)>>
  /\ out' = <<>>
  /\ UNCHANGED <<boot, rt, sock, session, now, captureOn, accLen, gens, vad,
                 silenceFrames, ttsPlaying, port, feeder, hist, play, probe,
                 cfgSent, cap, resamp, httpc, units>>
  /\ badSeen' = TRUE

\* input_audio_buffer.speech_started: the remote VAD heard speech
WsSpeechStarted ==
  /\ Receiving
  /\ out' = <<>>
  /\ IF variant = "script"
     THEN LET fx == hardStopAssistantAudio IN
          /\ trace' = <<"ws:speech_started">> \o fx
          /\ port' = ApplyPosts(port, fx, Null)
          /\ Len(port') <= MaxPort
          /\ buffers' = AgedBuffers(fx, buffers)
          /\ cur' = AgedCur(fx, cur)
          /\ interrupted' = TRUE
          /\ cancelsForBarge' = IF bargeGen = 0 THEN 0
                                ELSE Min(2, cancelsForBarge + Cancels(fx))
          /\ UNCHANGED <<bargeGen, ttsPlaying>>
     ELSE /\ trace' = <<"ws:speech_started">>
          /\ ttsPlaying' = FALSE
          /\ UNCHANGED <<port, buffers, cur, hist>>
  /\ UNCHANGED <<boot, rt, sock, session, now, captureOn, accLen, gens, vad,
                 silenceFrames, readIndex, play, probe, aux>>

\* transcription.speech_stopped (script also: input_audio_buffer.collected)
\* The script's response.create reads OUTPUT_RATE, which no source file
\* defines: with the page defining it the message is sent, without it the
\* handler throws ReferenceError before ws.send.
WsSpeechStopped ==
  /\ Receiving
  /\ out' = <<>>
  /\ IF variant = "script"
     THEN /\ \E defined \in BOOLEAN :
               trace' = <<"ws:speech_stopped">> \o
                        (IF defined THEN wsSend("response.create") ELSE <<>>)
          /\ UNCHANGED session
     ELSE maybeCommitToServer(TRUE, <<"ws:speech_stopped">>)
  /\ UNCHANGED <<boot, rt, sock, now, captureOn, accLen, gens, vad,
                 silenceFrames, ttsPlaying, port, feeder, hist, play, probe, aux>>

\* response.completed / response.output_text.done: caption only
WsResponseCompleted ==
  /\ Receiving /\ variant = "script"
  /\ responseGen >= 1
  /\ trace' = <<"ws:response.completed">>
  /\ out' = <<>>
  /\ UNCHANGED <<boot, rt, sock, session, now, captureOn, accLen, gens, vad,
                 silenceFrames, ttsPlaying, port, feeder, hist, play, probe, aux>>

\* part_004: input_audio_buffer.committed
WsCommitted ==
  /\ Receiving /\ variant = "part004"
  /\ appendedMsSinceCommit' = 0
  /\ trace' = <<"ws:committed">>
  /\ out' = <<>>
  /\ UNCHANGED <<boot, rt, sock, wsOpen, everAppended, lastCommitAt, now,
                 captureOn, accLen, gens, vad, silenceFrames, ttsPlaying, port,
                 feeder, hist, play, probe, aux>>

\* part_004: a final transcript (finalizeTranscript, then speak)
WsTranscriptCompleted ==
  /\ Receiving /\ variant = "part004"
  /\ ttsPlaying' = TRUE
  /\ trace' = <<"ws:transcript.completed">>
  /\ out' = <<>>
  /\ UNCHANGED <<boot, rt, sock, session, now, captureOn, accLen, gens, vad,
                 silenceFrames, port, feeder, hist, play, probe, aux>>

\* part_004: the TTS stream plays to its end
TtsEnded ==
  /\ ttsPlaying
  /\ ttsPlaying' = FALSE
  /\ trace' = <<"tts:ended">>
  /\ out' = <<>>
  /\ UNCHANGED <<boot, rt, sock, session, now, captureOn, accLen, gens, vad,
                 silenceFrames, port, feeder, hist, play, probe, aux>>

\* --------------------------------------------- the host of a worklet
\* The page side of a playback node seen from the worklet: it posts chunks
\* ({type:'push'} from PCMPlayer.enqueueBase64PCM16, {type:'audio'} for the
\* pcm-player classes) and clears ({type:'clear'} / {type:'flush'}).
\* PCMPlayer never posts an empty payload; the pcm-player classes can be sent
\* an empty Float32Array.
HostPostAudio(n) ==
  /\ started
  /\ worklet = "PCMFeeder" => n > 0
  /\ pushSeq < MaxPush
  /\ Len(port) < MaxPort
  /\ port' = Append(port, PushMsg(Chunk(0, n, pushSeq + 1)))
  /\ pushSeq' = pushSeq + 1
  /\ trace' = <<"host:audio", Posted("push")>>
  /\ out' = <<>>
  /\ UNCHANGED <<boot, rt, sock, session, now, captureOn, accLen, gens, vad,
                 silenceFrames, ttsPlaying, feeder, hist, worklet, lastOut, probe, aux>>

HostPostFlush ==
  /\ started
  /\ Len(port) < MaxPort
  /\ port' = Append(AgePort(port), ClearMsg)
  /\ buffers' = AgeSeq(buffers)
  /\ cur' = IF cur = Null THEN Null ELSE AgeChunk(cur)
  /\ trace' = <<"host:flush", Posted("clear")>>
  /\ out' = <<>>
  /\ UNCHANGED <<boot, rt, sock, session, now, captureOn, accLen, gens, vad,
                 silenceFrames, ttsPlaying, readIndex, hist, play, probe, aux>>

\* ------------------------------------------------------- the resamplers
\* Sample values are exact rationals <<numerator, denominator>> in lowest
\* terms; <<0, 0>> stands for NaN.
Abs(n) == IF n < 0 THEN -n ELSE n
Max(a, b) == IF a > b THEN a ELSE b
RECURSIVE GCD(_, _)
GCD(a, b) == IF b = 0 THEN a ELSE GCD(b, a % b)
Norm(n, d) == LET g == GCD(Abs(n), d) IN <<n \div g, d \div g>>
NaNValue == <<0, 0>>
IsNaN(v) == v[2] = 0

\* a * (1 - t) + b * t for t = tn / td
Blend(a, b, tn, td) ==
  IF IsNaN(a) \/ IsNaN(b) THEN NaNValue
  ELSE Norm(a[1] * b[2] * (td - tn) + b[1] * a[2] * tn, a[2] * b[2] * td)

\* a + (b - a) * frac for frac = tn / td
Lerp(a, b, tn, td) ==
  IF IsNaN(a) \/ IsNaN(b) THEN NaNValue
  ELSE Norm(a[1] * b[2] * td + (b[1] * a[2] - a[1] * b[2]) * tn, a[2] * b[2] * td)

\* the source position and neighbours one output sample is blended from
Tap(i0, i1, xn, xd) == [i0 |-> i0, i1 |-> i1, x |-> <<xn, xd>>]
NaNTap == [i0 |-> "NaN", i1 |-> "NaN", x |-> NaNValue]

\* the body of PCMPlayer.resampleLinear for from # to.  With len = 1,
\* ratio = (f32.length - 1) / 0 is Infinity, -Infinity or NaN, x = 0 * ratio
\* is NaN, and so are i0, i1, t and the sample f32[NaN] * NaN.
resampleLinearBody(f32, from, to) ==
  LET n == Len(f32)
      len == Max(1, Round(n * to, from))
  IN IF len = 1
     THEN [out |-> <<NaNValue>>, taps |-> <<NaNTap>>]
     ELSE LET xd == len - 1
              i0(i) == ((i - 1) * (n - 1)) \div xd
              i1(i) == Min(n - 1, i0(i) + 1)
              tn(i) == ((i - 1) * (n - 1)) % xd
          IN [out |-> [i \in 1..len |->
                        Blend(f32[i0(i) + 1], f32[i1(i) + 1], tn(i), xd)],
              taps |-> [i \in 1..len |->
                        Tap(i0(i), i1(i), (i - 1) * (n - 1), xd)]]

\* PCMPlayer.resampleLinear without the from === to return
resampleLinearNoShortcut(f32, from, to) == resampleLinearBody(f32, from, to)

\* PCMPlayer.resampleLinear(f32, from, to)
resampleLinear(f32, from, to) ==
  IF from = to THEN [out |-> f32, taps |-> <<>>]
  ELSE resampleLinearBody(f32, from, to)

\* f32[k] || 0 and f32[k + 1] || a for a 0-based index k: a sample that is
\* absent, NaN or 0 is replaced
OrElse(f32, k, dflt) ==
  IF k + 1 > Len(f32) THEN dflt
  ELSE IF IsNaN(f32[k + 1]) \/ f32[k + 1][1] = 0 THEN dflt
  ELSE f32[k + 1]

\* MicCaptureProcessor._resampleLinear(f32, srcRate, dstRate); pos, which
\* the code accumulates by 1 / ratio, is i * srcRate / dstRate
micResampleLinear(f32, srcRate, dstRate) ==
  IF srcRate = dstRate THEN [out |-> f32, taps |-> <<>>]
  ELSE LET len == (Len(f32) * dstRate) \div srcRate
           idx(i) == ((i - 1) * srcRate) \div dstRate
           fn(i) == ((i - 1) * srcRate) % dstRate
           a(i) == OrElse(f32, idx(i), <<0, 1>>)
           b(i) == OrElse(f32, idx(i) + 1, a(i))
       IN [out |-> [i \in 1..len |-> Lerp(a(i), b(i), fn(i), dstRate)],
           taps |-> [i \in 1..len |->
                      Tap(idx(i), idx(i) + 1, (i - 1) * srcRate, dstRate)]]

\* the inputs offered: decoded PCM16 samples at the extremes and at
\* zero, sequences of up to MaxSamples of them, rates 8 kHz .. MaxRate * 8 kHz
SampleValues == {<<-1, 1>>, <<0, 1>>, <<1, 1>>}
Rates == 1..MaxRate
SampleSeqs == UNION {[1..n -> SampleValues] : n \in 0..MaxSamples}
ResampleInputs == [x : SampleSeqs, from : Rates, to : Rates]

\* everything of the page and the worklets that a resampler call leaves alone
page == <<boot, rt, sock, session, now, captureOn, accLen, gens, vad,
          silenceFrames, ttsPlaying, port, feeder, hist, play, probe>>

\* one call of PCMPlayer.resampleLinear on the arguments rsIn
PlayerResample ==
  /\ rsOut = Null
  /\ rsOut' = [fn |-> "PCMPlayer.resampleLinear"] @@
               resampleLinear(rsIn.x, rsIn.from, rsIn.to)
  /\ trace' = <<"resample">>
  /\ out' = <<>>
  /\ UNCHANGED <<page, cfgSent, badSeen, cap, rsIn, httpc, units>>

\* one call of MicCaptureProcessor._resampleLinear on the arguments rsIn
MicResample ==
  /\ rsOut = Null
  /\ rsOut' = [fn |-> "MicCaptureProcessor._resampleLinear"] @@
               micResampleLinear(rsIn.x, rsIn.from, rsIn.to)
  /\ trace' = <<"resample">>
  /\ out' = <<>>
  /\ UNCHANGED <<page, cfgSent, badSeen, cap, rsIn, httpc, units>>

\* ------------------------------------------- the HTTP pipeline (app.js)
\* what a resampler or HTTP step leaves alone besides its own variables
rest == <<page, cfgSent, badSeen, cap, resamp, units>>

InFlight == {"stt", "llm", "tts"}
Pipe(stage, signal) == [stage |-> stage, signal |-> signal]
Outcomes == {"ok", "none"}

\* stopTTSLocal: the controllers aborted after it
stopTTSLocal ==
  IF ttsAbort # 0 THEN abortedCtrls \cup {ttsAbort} ELSE abortedCtrls

\* drawScope sees speech begin: onSpeechStart up to its await of /tts/stop
SpeechStart ==
  /\ ~vadSpeaking
  /\ stopPending < MaxPending
  /\ vadSpeaking' = TRUE
  /\ abortedCtrls' = stopTTSLocal
  /\ ttsAbort' = 0
  /\ stopPending' = stopPending + 1
  /\ barged' = barged \cup {q \in 1..Len(pipes) : pipes[q].stage \in InFlight}
  /\ trace' = <<"http:speech_start">>
  /\ out' = <<>>
  /\ UNCHANGED <<rest, recording, intentAbort, ctrlSeq, pipes, played>>

\* onSpeechStart after the /tts/stop request settled: abort the intent
\* controller, start the recorder
SpeechStartResume ==
  /\ stopPending > 0
  /\ stopPending' = stopPending - 1
  /\ abortedCtrls' = IF intentAbort # 0 THEN abortedCtrls \cup {intentAbort}
                     ELSE abortedCtrls
  /\ recording' = TRUE
  /\ trace' = <<"http:speech_start:resume">>
  /\ out' = <<>>
  /\ UNCHANGED <<rest, vadSpeaking, intentAbort, ttsAbort, ctrlSeq, pipes,
                 barged, played>>

\* drawScope sees the hangover elapse: onSpeechEnd; with the recorder
\* running, recorder.onstop and, if chunks were collected (hasAudio),
\* uploadChunk up to its /transcribe request
SpeechEnd(hasAudio) ==
  /\ vadSpeaking
  /\ vadSpeaking' = FALSE
  /\ IF recording
     THEN /\ recording' = FALSE
          /\ IF hasAudio
             THEN /\ Len(pipes) < MaxPipes
                  /\ pipes' = Append(pipes, Pipe("stt", intentAbort))
             ELSE UNCHANGED pipes
     ELSE UNCHANGED <<recording, pipes>>
  /\ trace' = <<"http:speech_end">>
  /\ out' = <<>>
  /\ UNCHANGED <<rest, intentAbort, ttsAbort, ctrlSeq, abortedCtrls,
                 stopPending, barged, played>>

\* a pending fetch rejects with AbortError: uploadChunk (or speak) returns
FetchAborted(q) ==
  /\ pipes[q].stage \in InFlight
  /\ pipes[q].signal \in abortedCtrls
  /\ pipes' = [pipes EXCEPT ![q].stage = "aborted"]
  /\ trace' = <<"http:aborted">>
  /\ out' = <<>>
  /\ UNCHANGED <<rest, vadSpeaking, recording, intentAbort, ttsAbort, ctrlSeq,
                 abortedCtrls, stopPending, barged, played>>

\* /transcribe answered; with a text, intentAbort = new AbortController()
\* and the /determine_intent request
SttResponse(q, outcome) ==
  /\ pipes[q].stage = "stt"
  /\ pipes[q].signal \notin abortedCtrls
  /\ IF outcome = "ok"
     THEN /\ ctrlSeq' = ctrlSeq + 1
          /\ intentAbort' = ctrlSeq + 1
          /\ pipes' = [pipes EXCEPT ![q] = Pipe("llm", ctrlSeq + 1)]
     ELSE /\ pipes' = [pipes EXCEPT ![q].stage = "done"]
          /\ UNCHANGED <<ctrlSeq, intentAbort>>
  /\ trace' = <<"http:stt">>
  /\ out' = <<>>
  /\ UNCHANGED <<rest, vadSpeaking, recording, ttsAbort, abortedCtrls,
                 stopPending, barged, played>>

\* /determine_intent answered; with a reply, speak(reply): stopTTSLocal,
\* ttsAbort = new AbortController() and the /tts request
LlmResponse(q, outcome) ==
  /\ pipes[q].stage = "llm"
  /\ pipes[q].signal \notin abortedCtrls
  /\ IF outcome = "ok"
     THEN /\ abortedCtrls' = stopTTSLocal
          /\ ctrlSeq' = ctrlSeq + 1
          /\ ttsAbort' = ctrlSeq + 1
          /\ pipes' = [pipes EXCEPT ![q] = Pipe("tts", ctrlSeq + 1)]
     ELSE /\ pipes' = [pipes EXCEPT ![q].stage = "done"]
          /\ UNCHANGED <<ctrlSeq, ttsAbort, abortedCtrls>>
  /\ trace' = <<"http:llm">>
  /\ out' = <<>>
  /\ UNCHANGED <<rest, vadSpeaking, recording, intentAbort, stopPending,
                 barged, played>>

\* /tts answered; with audio, player.src is set and player.play() called
TtsResponse(q, outcome) ==
  /\ pipes[q].stage = "tts"
  /\ pipes[q].signal \notin abortedCtrls
  /\ IF outcome = "ok"
     THEN /\ pipes' = [pipes EXCEPT ![q].stage = "playing"]
          /\ played' = played \cup {q}
     ELSE /\ pipes' = [pipes EXCEPT ![q].stage = "done"]
          /\ UNCHANGED played
  /\ trace' = <<"http:tts">>
  /\ out' = <<>>
  /\ UNCHANGED <<rest, vadSpeaking, recording, intentAbort, ttsAbort, ctrlSeq,
                 abortedCtrls, stopPending, barged>>

\* ------------------------- MicCaptureProcessorV2 (mic-capture-processor.js)
\* sampleRate of the audio context and the processorOptions offered to the
\* constructor, in Hz and ms; a frame lasts postIntervalMs.  Every offered
\* pair of options gives a frame of at least one sample, as the documented
\* 16000 Hz and 20 ms do.
MicSampleRates == {1000, 2000, 3000}
MicOutRates == {1000, 2000, 3000}
MicIntervals == {1, 2}

\* what every step of the capture worklet leaves alone
micRest == <<page, cfgSent, badSeen, cap, resamp, httpc, lt>>

\* new MicCaptureProcessorV2({processorOptions}): both options present
\* (Math.floor(x || dflt) is x for the positive integers offered here)
MicConstruct(sr, downsampleTo, postIntervalMs) ==
  /\ mic = Null
  /\ mic' = [kind |-> "mic-capture-v2",
             sampleRate |-> sr, outRate |-> downsampleTo,
             frameLen |-> (downsampleTo * postIntervalMs) \div 1000,
             decim |-> Round(sr, downsampleTo),
             integerDecim |-> sr = downsampleTo * Round(sr, downsampleTo),
             phase |-> 0, t |-> 0, prev |-> <<0, 1>>,
             buf |-> <<>>, n |-> 0, pushed |-> <<>>, frames |-> <<>>]
  /\ trace' = <<"micv2:new", Posted("debug")>>
  /\ out' = <<>>
  /\ UNCHANGED micRest

\* the exact path: for (i ...) if ((this.phase++ % this.decim) === 0) push
RECURSIVE decimate(_, _, _, _, _)
decimate(ch0, i, decim, phase, pushed) ==
  IF i > Len(ch0) THEN [phase |-> phase, pushed |-> pushed]
  ELSE decimate(ch0, i + 1, decim, phase + 1,
                IF phase % decim = 0 THEN Append(pushed, ch0[i]) ELSE pushed)

\* while (this.t >= inRate) { frac = (t - inRate) / outRate; push; t -= inRate }
RECURSIVE emit(_, _, _, _, _, _)
emit(t, inRate, outRate, prev, curr, pushed) ==
  IF t < inRate THEN [t |-> t, pushed |-> pushed]
  ELSE emit(t - inRate, inRate, outRate, prev, curr,
            Append(pushed, Lerp(prev, curr, t - inRate, outRate)))

\* the generic path: the linear resampler over one block
RECURSIVE resampleBlock(_, _, _, _, _, _, _)
resampleBlock(ch0, i, inRate, outRate, t, prev, pushed) ==
  IF i > Len(ch0) THEN [t |-> t, prev |-> prev, pushed |-> pushed]
  ELSE LET e == emit(t + outRate, inRate, outRate, prev, ch0[i], pushed)
       IN resampleBlock(ch0, i + 1, inRate, outRate, e.t, ch0[i], e.pushed)

\* _postFramesIfReady posting at most one frame per call
postFramesOnce(buf, frameLen, frames) ==
  IF Len(buf) < frameLen THEN [buf |-> buf, frames |-> frames]
  ELSE [buf |-> SubSeq(buf, frameLen + 1, Len(buf)),
        frames |-> Append(frames, SubSeq(buf, 1, frameLen))]

\* _postFramesIfReady: the frames posted and what stays in buf
RECURSIVE postFramesIfReady(_, _, _)
postFramesIfReady(buf, frameLen, frames) ==
  IF Len(buf) < frameLen THEN [buf |-> buf, frames |-> frames]
  ELSE postFramesIfReady(SubSeq(buf, frameLen + 1, Len(buf)), frameLen,
                         Append(frames, SubSeq(buf, 1, frameLen)))

\* the input block of a process call: len samples, numbered in order
MicInput(len) == [k \in 1..len |-> <<mic.n + k, 1>>]

\* process(inputs) with a block of len samples; an empty input returns at
\* once
MicProcess(len) ==
  /\ mic # Null
  /\ mic.n + len <= MaxMicSamples
  /\ out' = <<>>
  /\ UNCHANGED micRest
  /\ IF len = 0
     THEN /\ trace' = <<"micv2:process">>
          /\ mic' = [mic EXCEPT !.pushed = <<>>, !.frames = <<>>]
     ELSE LET ch0 == MicInput(len)
              d == decimate(ch0, 1, mic.decim, mic.phase, <<>>)
              r == resampleBlock(ch0, 1, mic.sampleRate, mic.outRate,
                                 mic.t, mic.prev, <<>>)
              exact == mic.integerDecim /\ mic.decim >= 1
              pushed == IF exact THEN d.pushed ELSE r.pushed
              m1 == IF exact THEN [mic EXCEPT !.phase = d.phase]
                    ELSE [mic EXCEPT !.t = r.t, !.prev = r.prev]
              f == postFramesIfReady(mic.buf \o pushed, mic.frameLen, <<>>)
          IN /\ trace' = <<"micv2:process">> \o
                         [k \in 1..Len(f.frames) |-> Posted("audio")]
             /\ mic' = [m1 EXCEPT !.n = @ + len, !.buf = f.buf,
                                  !.pushed = pushed, !.frames = f.frames]

\* --------------------------------------- LatencyTracker (latency_tracker.js)
\* what every tracker call leaves alone
ltRest == <<page, cfgSent, badSeen, cap, resamp, httpc, mic>>

\* a tracker call: its name, the turn it leaves, its pushes and its report
LtCall(name, turn, rec, report) ==
  /\ lt' = [lt EXCEPT !.turn = turn, !.rec = rec, !.report = report]
  /\ trace' = <<"lt:" \o name>>
  /\ out' = <<>>
  /\ UNCHANGED ltRest

\* a call that returned at its guard
LtReturn(name) == LtCall(name, lt.turn, {}, {})

\* performance.now() advances between calls
LtTick ==
  /\ lt.clock < MaxClock
  /\ lt' = [lt EXCEPT !.clock = @ + 1, !.rec = {}, !.report = {}]
  /\ trace' = <<"lt:tick">>
  /\ out' = <<>>
  /\ UNCHANGED ltRest

LtOnSpeechStart ==
  IF ~lt.enabled THEN LtReturn("onSpeechStart")
  ELSE LtCall("onSpeechStart",
              [lt.turn EXCEPT !.speechStartTime = lt.clock], {}, {})

LtOnSpeechStopEvent ==
  IF ~lt.enabled \/ lt.turn.speechStartTime = 0
  THEN LtReturn("onSpeechStopEvent")
  ELSE LtCall("onSpeechStopEvent",
              [lt.turn EXCEPT !.speechStopEventTime = lt.clock],
              {<<"vad_latency", lt.clock - lt.turn.speechStartTime>>}, {})

LtOnTranscriptComplete ==
  IF ~lt.enabled \/ lt.turn.speechStopEventTime = 0
  THEN LtReturn("onTranscriptComplete")
  ELSE LtCall("onTranscriptComplete",
              [lt.turn EXCEPT !.transcriptCompleteTime = lt.clock],
              {<<"asr_latency", lt.clock - lt.turn.speechStopEventTime>>}, {})

LtOnFirstToken ==
  IF ~lt.enabled \/ lt.turn.transcriptCompleteTime = 0
  THEN LtReturn("onFirstToken")
  ELSE LtCall("onFirstToken",
              [lt.turn EXCEPT !.firstTokenTime = lt.clock],
              {<<"llm_latency", lt.clock - lt.turn.transcriptCompleteTime>>}, {})

LtOnFirstAudioChunk ==
  IF ~lt.enabled \/ lt.turn.firstTokenTime = 0
  THEN LtReturn("onFirstAudioChunk")
  ELSE LtCall("onFirstAudioChunk",
              [lt.turn EXCEPT !.firstAudioChunkTime = lt.clock],
              {<<"tts_latency", lt.clock - lt.turn.firstTokenTime>>}, {})

\* onAudioPlaybackStart: playback latency, with a speech start also the
\* end-to-end latency and the breakdown sent to the backend, then resetTurn
LtOnAudioPlaybackStart ==
  IF ~lt.enabled \/ lt.turn.firstAudioChunkTime = 0
  THEN LtReturn("onAudioPlaybackStart")
  ELSE LET t == lt.turn
           playback == lt.clock - t.firstAudioChunkTime
       IN LtCall("onAudioPlaybackStart", NullTurn,
                 {<<"playback_latency", playback>>} \cup
                   (IF t.speechStartTime # 0
                    THEN {<<"e2e_latency", lt.clock - t.speechStartTime>>}
                    ELSE {}),
                 IF t.speechStartTime # 0
                 THEN {<<"total_ms", lt.clock - t.speechStartTime>>,
                       <<"vad_ms", t.speechStopEventTime - t.speechStartTime>>,
                       <<"asr_ms", t.transcriptCompleteTime - t.speechStopEventTime>>,
                       <<"llm_ms", t.firstTokenTime - t.transcriptCompleteTime>>,
                       <<"tts_ms", t.firstAudioChunkTime - t.firstTokenTime>>,
                       <<"playback_ms", playback>>}
                 ELSE {})

LtOnUserInterrupt ==
  IF ~lt.enabled THEN LtReturn("onUserInterrupt")
  ELSE LtCall("onUserInterrupt",
              [lt.turn EXCEPT !.interruptTime = lt.clock], {}, {})

LtOnAudioStopped ==
  IF ~lt.enabled \/ lt.turn.interruptTime = 0
  THEN LtReturn("onAudioStopped")
  ELSE LtCall("onAudioStopped",
              [lt.turn EXCEPT !.audioStopTime = lt.clock],
              {<<"barge_in_latency", lt.clock - lt.turn.interruptTime>>},
              {<<"latency_ms", lt.clock - lt.turn.interruptTime>>})

LtResetTurn == LtCall("resetTurn", NullTurn, {}, {})

\* ------------------------------------------------------- specification
\* Next composes every handler of both variants.  Its state space is the
\* product of the playback, capture, clock and VAD state; the claims are
\* checked on the slices below, which share the action definitions and
\* differ in which inputs the environment offers.
Next ==
  \/ \E ok \in BOOLEAN : Gesture(ok)
  \/ \E sr \in MicSampleRates, to \in MicOutRates, ms \in MicIntervals :
       MicConstruct(sr, to, ms)
  \/ \E len \in 0..MicBlock : MicProcess(len)
  \/ LtTick \/ LtOnSpeechStart \/ LtOnSpeechStopEvent \/ LtOnTranscriptComplete
  \/ LtOnFirstToken \/ LtOnFirstAudioChunk \/ LtOnAudioPlaybackStart
  \/ LtOnUserInterrupt \/ LtOnAudioStopped \/ LtResetTurn
  \/ ConnectFail
  \/ OnOpen
  \/ SocketDrop
  \/ WsOnClose
  \/ Tick
  \/ OnAudioProcess
  \/ \E score \in Scores : AnimateTick(score)
  \/ WsResponseCreated
  \/ \E n \in ChunkLens : WsAudioDelta(n)
  \/ \E n \in ChunkLens : WsLateAudioDelta(n)
  \/ WsSpeechStarted
  \/ WsSpeechStopped
  \/ WsResponseCompleted
  \/ WsCommitted
  \/ WsTranscriptCompleted
  \/ TtsEnded
  \/ WorkletOnMessage
  \/ Process

Spec == Init /\ [][Next]_vars

\* The barge-in and playback slice of the realtime client (web/script.js):
\* the microphone delivers no blocks, the clock stands still and every
\* analysed frame is loud.
BargeScores == {90}

InitBarge == Init /\ variant = "script"

NextBarge ==
  \/ \E ok \in BOOLEAN : Gesture(ok)
  \/ ConnectFail
  \/ OnOpen
  \/ SocketDrop
  \/ WsOnClose
  \/ \E score \in BargeScores : AnimateTick(score)
  \/ WsResponseCreated
  \/ \E n \in ChunkLens : WsAudioDelta(n)
  \/ WsSpeechStarted
  \/ WsSpeechStopped
  \/ WsResponseCompleted
  \/ WorkletOnMessage
  \/ Process

SpecBarge == InitBarge /\ [][NextBarge]_vars

\* The capture and commit slice, both variants: no assistant audio arrives.
CommitScores == {0, 90}

NextCommit ==
  \/ \E ok \in BOOLEAN : Gesture(ok)
  \/ ConnectFail
  \/ OnOpen
  \/ SocketDrop
  \/ WsOnClose
  \/ Tick
  \/ OnAudioProcess
  \/ \E score \in CommitScores : AnimateTick(score)
  \/ WsSpeechStopped
  \/ WsCommitted
  \/ WorkletOnMessage

SpecCommit == Init /\ [][NextCommit]_vars

\* The playback path of the WebSocket client: responses are created, their
\* audio deltas arrive in any order the server chooses, and the worklet
\* takes its messages and renders.
NextGate ==
  \/ \E ok \in BOOLEAN : Gesture(ok)
  \/ OnOpen
  \/ WsResponseCreated
  \/ \E n \in ChunkLens : WsAudioDelta(n)
  \/ \E n \in ChunkLens : WsLateAudioDelta(n)
  \/ WorkletOnMessage
  \/ Process

SpecGate == InitBarge /\ [][NextGate]_vars

\* The inbound slice, both variants: the server sends valid events, frames
\* that are not JSON and audio deltas that do not decode, in any order; the
\* microphone delivers no blocks.
NextInbound ==
  \/ \E ok \in BOOLEAN : Gesture(ok)
  \/ OnOpen
  \/ SocketDrop
  \/ WsResponseCreated
  \/ \E n \in ChunkLens : WsAudioDelta(n)
  \/ WsSpeechStarted
  \/ WsSpeechStopped
  \/ WsCommitted
  \/ WsUnparseable
  \/ \E p \in BadPayloads : WsAudioDeltaUndecodable(p)
  \/ WorkletOnMessage
  \/ Process

SpecInbound == Init /\ [][NextInbound]_vars

\* The capture slice, both variants: microphone blocks with every sample
\* followed from the callback into the frames.
NextCapture ==
  \/ \E ok \in BOOLEAN : Gesture(ok)
  \/ OnOpen
  \/ SocketDrop
  \/ WsOnClose
  \/ ObservedAudioProcess
  \/ WsSpeechStopped
  \/ WsCommitted

SpecCapture == Init /\ [][NextCapture]_vars

\* The resampler slice: the two linear resamplers as functions, applied
\* once to every argument triple of ResampleInputs.
InitResample ==
  /\ variant = "script"
  /\ micArmed = FALSE /\ micActive = FALSE /\ started = FALSE
  /\ rt = "idle" /\ sock = "none"
  /\ wsOpen = FALSE /\ everAppended = FALSE
  /\ appendedMsSinceCommit = 0 /\ lastCommitAt = 0
  /\ now = 0
  /\ captureOn = FALSE /\ accLen = 0
  /\ responseGen = 0 /\ activeGen = 0 /\ playerGen = 0
  /\ speaking = FALSE /\ speakHold = initialSpeakHold(variant) /\ silenceHold = 0
  /\ silenceFrames = 0
  /\ ttsPlaying = FALSE
  /\ port = <<>> /\ buffers = <<>> /\ cur = Null /\ readIndex = 0
  /\ out = <<>>
  /\ trace = <<>>
  /\ interrupted = FALSE /\ bargeGen = 0 /\ cancelsForBarge = 0
  /\ worklet = "PCMFeeder" /\ pushSeq = 0 /\ lastOut = Null
  /\ analyser = TRUE /\ vadObs = ObsInit
  /\ HistInit
  /\ rsIn \in ResampleInputs /\ rsOut = Null

NextResample ==
  \/ PlayerResample
  \/ MicResample

SpecResample == InitResample /\ [][NextResample]_vars

\* The capture worklet MicCaptureProcessorV2 alone: it is constructed with
\* any of the offered rates and intervals and then fed blocks.
NextMicV2 ==
  \/ \E sr \in MicSampleRates, to \in MicOutRates, ms \in MicIntervals :
       MicConstruct(sr, to, ms)
  \/ \E len \in 0..MicBlock : MicProcess(len)

SpecMicV2 == InitBarge /\ [][NextMicV2]_vars

\* The latency tracker alone: its handlers are called in any order while
\* the clock advances.
NextLatency ==
  \/ LtTick
  \/ LtOnSpeechStart
  \/ LtOnSpeechStopEvent
  \/ LtOnTranscriptComplete
  \/ LtOnFirstToken
  \/ LtOnFirstAudioChunk
  \/ LtOnAudioPlaybackStart
  \/ LtOnUserInterrupt
  \/ LtOnAudioStopped
  \/ LtResetTurn

SpecLatency == InitBarge /\ [][NextLatency]_vars

\* The HTTP pipeline client (web/app.js): speech starts and ends, and the
\* three requests of every uploaded utterance answer in any order.
NextHttp ==
  \/ SpeechStart
  \/ SpeechStartResume
  \/ \E hasAudio \in BOOLEAN : SpeechEnd(hasAudio)
  \/ \E q \in 1..Len(pipes) : FetchAborted(q)
  \/ \E q \in 1..Len(pipes), outcome \in Outcomes : SttResponse(q, outcome)
  \/ \E q \in 1..Len(pipes), outcome \in Outcomes : LlmResponse(q, outcome)
  \/ \E q \in 1..Len(pipes), outcome \in Outcomes : TtsResponse(q, outcome)

SpecHttp == InitBarge /\ [][NextHttp]_vars

\* The playback slice: one playback node of any of the four worklet
\* classes, already constructed and rendering, and a host that posts chunks
\* and clears in any order while render callbacks run.
InitWorklet ==
  /\ variant = "script"
  /\ micArmed = TRUE /\ micActive = TRUE /\ started = TRUE
  /\ rt = "connecting" /\ sock = "none"
  /\ wsOpen = FALSE /\ everAppended = FALSE
  /\ appendedMsSinceCommit = 0 /\ lastCommitAt = 0
  /\ now = 0
  /\ captureOn = FALSE /\ accLen = 0
  /\ responseGen = 0 /\ activeGen = 0 /\ playerGen = 0
  /\ speaking = FALSE /\ speakHold = initialSpeakHold(variant) /\ silenceHold = 0
  /\ silenceFrames = 0
  /\ ttsPlaying = FALSE
  /\ port = <<>> /\ buffers = <<>> /\ cur = Null /\ readIndex = 0
  /\ out = <<>>
  /\ trace = <<"gesture">>
  /\ interrupted = FALSE /\ bargeGen = 0 /\ cancelsForBarge = 0
  /\ worklet \in Worklets /\ pushSeq = 0 /\ lastOut = Null
  /\ analyser = TRUE /\ vadObs = ObsInit
  /\ AuxInit

NextWorklet ==
  \/ \E n \in ChunkLens : HostPostAudio(n)
  \/ HostPostFlush
  \/ WorkletOnMessage
  \/ Process

SpecWorklet == InitWorklet /\ [][NextWorklet]_vars

\* The VAD slice, both variants, with or without analyser: the page takes
\* its gesture and animate runs on frames of every band of score, the
\* thresholds and the release thresholds themselves included.
VadScores == {0, 18, 20, 30, 48, 50, 80, 90}

InitVad ==
  /\ variant \in Variants
  /\ micArmed = FALSE /\ micActive = FALSE /\ started = FALSE
  /\ rt = "idle" /\ sock = "none"
  /\ wsOpen = FALSE /\ everAppended = FALSE
  /\ appendedMsSinceCommit = 0 /\ lastCommitAt = 0
  /\ now = 0
  /\ captureOn = FALSE /\ accLen = 0
  /\ responseGen = 0 /\ activeGen = 0 /\ playerGen = 0
  /\ speaking = FALSE /\ speakHold = initialSpeakHold(variant) /\ silenceHold = 0
  /\ silenceFrames = 0
  /\ ttsPlaying = FALSE
  /\ port = <<>> /\ buffers = <<>> /\ cur = Null /\ readIndex = 0
  /\ out = <<>>
  /\ trace = <<>>
  /\ interrupted = FALSE /\ bargeGen = 0 /\ cancelsForBarge = 0
  /\ worklet = "PCMFeeder" /\ pushSeq = 0 /\ lastOut = Null
  /\ analyser \in BOOLEAN /\ vadObs = ObsInit
  /\ AuxInit

NextVad ==
  \/ \E ok \in BOOLEAN : Gesture(ok)
  \/ \E score \in VadScores : ObservedAnimateTick(score)
  \/ WorkletOnMessage

SpecVad == InitVad /\ [][NextVad]_vars

\* ================================================================ claims
Event == IF trace = <<>> THEN "" ELSE trace[1]
CancelMsg == Sent("response.cancel")
CommitMsg == Sent("input_audio_buffer.commit")

ClearPendingAfter(i) == \E j \in (i + 1)..Len(port) : port[j].type = "clear"
ClearPending == ClearPendingAfter(0)
Unread == cur # Null /\ readIndex < cur.len
\* every chunk still queued will be discarded by a clear already in flight
QueueDoomed ==
  /\ (buffers # <<>> \/ Unread) => ClearPending
  /\ \A i \in 1..Len(port) : port[i].type = "push" => ClearPendingAfter(i)

\* C1: once a barge-in (local VAD start or remote speech-started) has been
\* handled, an audio.delta of the interrupted response that arrives before
\* the next response.created is dropped, never posted to the playback queue.
C1_StaleDeltaDropped ==
  (Event = "ws:audio.delta" /\ interrupted) => ~Has(trace, Posted("push"))

\* C2: for one local barge-in (VAD start while a generation is active, until
\* the VAD ends or a new response is created) at most one response.cancel
\* is sent, the remote speech-started event included.
C2_OneCancelPerBargeIn == bargeGen # 0 => cancelsForBarge <= 1

\* C3: on VAD start the playback queue is cleared before response.cancel is
\* sent on the channel.
C3_ClearBeforeCancel ==
  (Event = "animate:start" /\ Has(trace, CancelMsg)) =>
     /\ Has(trace, Posted("clear"))
     /\ IndexOf(trace, Posted("clear")) < IndexOf(trace, CancelMsg)

\* C4: on VAD start a response.cancel is sent only if a generation was
\* active; with no assistant response ever started, none is sent.
C4_CancelOnlyIfActive ==
  (Event = "animate:start" /\ Has(trace, CancelMsg)) => activeGen # 0

\* C5 as stated: no sample of a chunk pushed before a handled VAD start is
\* rendered after that start.
C5_NoPreStartSampleRendered == \A k \in 1..Len(out) : ~out[k].pre

\* C5 as amended: the VAD start posts a clear behind every chunk pushed
\* before it; a sample of such a chunk is rendered only while that clear is
\* still in flight, and once the worklet has taken the clear no such chunk
\* is left (the partially read one included).
C5_PreStartDroppedOnClear ==
  /\ (\E k \in 1..Len(out) : out[k].pre) => ClearPending
  /\ ~ClearPending =>
        /\ \A k \in 1..Len(buffers) : ~buffers[k].pre
        /\ cur # Null => ~cur.pre
  /\ \A i \in 1..Len(port) :
        (port[i].type = "push" /\ port[i].chunk.pre) => ClearPendingAfter(i)

\* C5 witness: a VAD start was just handled while chunks were queued and one
\* was partially read.
C5_Witness ==
  /\ Event = "animate:start"
  /\ buffers # <<>> /\ Unread /\ readIndex > 0
  /\ cur.pre /\ buffers[1].pre

\* C6: a handled VAD start always posts the clear, whatever the state of the
\* channel, so everything queued is discarded without any acknowledgment.
C6_ClearRegardlessOfNetwork ==
  (Event = "animate:start" /\ variant = "script") =>
     /\ Has(trace, Posted("clear"))
     /\ port # <<>> /\ port[Len(port)] = ClearMsg
     /\ QueueDoomed

\* C6 witness: VAD start with audio queued on a dead channel: no cancel goes
\* out, the clear is posted.
C6_Witness ==
  /\ Event = "animate:start" /\ variant = "script"
  /\ sock = "closed" /\ ~Has(trace, CancelMsg)
  /\ buffers # <<>>
  /\ port # <<>> /\ port[Len(port)] = ClearMsg

\* C7: when the close of the channel has been handled, the playback queue
\* has been cleared: nothing queued survives.
C7_ClearedOnClose == Event = "ws:close" => QueueDoomed

\* C9: no commit is sent while appendedMsSinceCommit is 0.
C9_NoEmptyCommit ==
  [][Has(trace', CommitMsg) => appendedMsSinceCommit > 0]_vars

\* C10 as stated: a local VAD end while the channel is open and audio is
\* pending sends a commit on that tick.
C10_VadEndCommits ==
  (Event = "animate:end" /\ wsOpen /\ sock = "open" /\ appendedMsSinceCommit > 0)
     => Has(trace, CommitMsg)

\* C10 as amended: the tick of a local VAD end sends no commit; animate
\* commits only on the tick that takes the count of non-speaking frames
\* above 30, and only under the throttle; the remote speech_stopped event of
\* the part_004 variant is what forces a commit past the throttle.
C10_CommitAfterSilenceOnly ==
  [][ /\ (Has(trace', CommitMsg) /\ trace'[1] \in {"animate:start", "animate:end", "animate:none"}) =>
           /\ trace'[1] = "animate:none"
           /\ silenceFrames = SilenceFramesLimit
           /\ appendedMsSinceCommit >= MinCommitMs
           /\ now - lastCommitAt >= MinCommitIntervalMs
      /\ (trace'[1] = "ws:speech_stopped" /\ variant = "part004" /\ everAppended /\ wsOpen) =>
           Has(trace', CommitMsg)
    ]_vars

\* C10 witness: a VAD end was just handled on an open channel with audio
\* pending.
C10_Witness ==
  /\ Event = "animate:end" /\ wsOpen /\ sock = "open"
  /\ appendedMsSinceCommit > 0

\* the step sends a commit; forced commits come only from the remote
\* speech_stopped handler of the part_004 variant
CommitStep == Has(trace', CommitMsg)
ForcedStep == trace'[1] = "ws:speech_stopped"

\* C11 as stated: a non-forced commit is sent only with at least 120 ms
\* appended and at least 300 ms elapsed since the last commit (or the channel
\* opening), and no commit at all follows the previous one (or the opening)
\* by less than 300 ms.
C11_NoCommitWithin300 ==
  [][ CommitStep =>
        /\ now - lastCommitAt >= MinCommitIntervalMs
        /\ ~ForcedStep => appendedMsSinceCommit >= MinCommitMs
    ]_vars

\* C11 as amended: lastCommitAt is the time of the last commit sent, or of
\* the channel opening; a non-forced commit is sent only with at least 120 ms
\* appended and at least 300 ms after lastCommitAt, so in the script variant,
\* which never forces, commits are at least 300 ms apart; a forced commit
\* (part_004, remote speech_stopped) is not throttled.
C11_NonForcedThrottled ==
  [][ /\ (CommitStep /\ ~ForcedStep) =>
            /\ appendedMsSinceCommit >= MinCommitMs
            /\ now - lastCommitAt >= MinCommitIntervalMs
      /\ CommitStep => (lastCommitAt' = now /\ appendedMsSinceCommit' = 0)
      /\ lastCommitAt' # lastCommitAt => (CommitStep \/ trace'[1] = "ws:open")
      /\ (CommitStep /\ variant = "script") => ~ForcedStep
    ]_vars

\* C11 witness: animate has just sent a non-forced commit, after an earlier
\* instant of the clock.
C11_Witness ==
  /\ Event = "animate:none" /\ Has(trace, CommitMsg)
  /\ lastCommitAt = now /\ now >= MinCommitIntervalMs
  /\ appendedMsSinceCommit = 0

\* the samples queued and not yet read, oldest first
SamplesOf(c, from) == [k \in 1..(c.len - from) |-> Sample(c, from + k)]
RECURSIVE Flatten(_)
Flatten(q) == IF q = <<>> THEN <<>> ELSE SamplesOf(Head(q), 0) \o Flatten(Tail(q))
Queued ==
  IF cur # Null THEN SamplesOf(cur, readIndex) \o Flatten(buffers)
  ELSE IF buffers = <<>> THEN <<>>
  ELSE SamplesOf(Head(buffers), readIndex) \o Flatten(Tail(buffers))
ProcessStep == trace'[1] = "worklet:process"

\* C12: a render callback outputs the first min(n, queued) queued samples in
\* FIFO order, across chunk boundaries, then zeros for the shortfall, and
\* removes from the queue exactly the samples it output.
C12_PullFifoExact ==
  [][ ProcessStep =>
        LET q == Queued
            k == Min(Quantum, Len(q))
        IN /\ out' = SubSeq(q, 1, k) \o Zeros(Quantum - k)
           /\ Queued' = SubSeq(q, k + 1, Len(q))
    ]_vars

\* no chunk is queued: nothing waits and the chunk being read is used up
QueueEmpty == buffers = <<>> /\ (cur = Null \/ readIndex >= cur.len)

\* C13: a render callback on an empty playback queue outputs exactly n zeros
\* and leaves the queue empty, in every worklet class and every state reached
\* by posts, clears and callbacks; the callback can always run to its end.
C13_EmptyPullIsSilence ==
  /\ [][ (ProcessStep /\ QueueEmpty) =>
           /\ out' = Zeros(Quantum)
           /\ Len(out') = Quantum
           /\ QueueEmpty'
       ]_vars
  /\ [](started => ENABLED Process)

\* C13 witness: a callback has just output silence on an empty queue of a
\* PCMPlayerProcessor that rendered audio before.
C13_Witness ==
  /\ Event = "worklet:process" /\ worklet = "PCMPlayerProcessor"
  /\ QueueEmpty /\ out = Zeros(Quantum)
  /\ lastOut # Null /\ pushSeq = MaxPush

ClearsAfter(i) == Cardinality({j \in (i + 1)..Len(port) : port[j].type = "clear"})
ClearsInPort == ClearsAfter(0)
IsPcm(x) == x.val = "pcm"

\* C14: the worklet takes a clear between two callbacks, never inside one:
\* every chunk it holds, the partially read one included, and every sample a
\* callback outputs was posted after the last clear the worklet has taken
\* (the clears posted after it are exactly those still in flight), so no
\* callback outputs a sample from before a clear that has taken effect or
\* mixes audio from both sides of a clear; taking a clear empties the queue.
C14_ClearAtomic ==
  /\ [](/\ \A k \in 1..Len(out) : IsPcm(out[k]) => out[k].age = ClearsInPort
        /\ \A k \in 1..Len(buffers) : buffers[k].age = ClearsInPort
        /\ cur # Null => cur.age = ClearsInPort
        /\ \A i \in 1..Len(port) :
              port[i].type = "push" => port[i].chunk.age = ClearsAfter(i))
  /\ [][Has(trace', "recv:clear") => (Queued' = <<>> /\ QueueEmpty')]_vars

\* C14 witness: a PCMPlayer (_pullFrame) has just taken a flush while the
\* chunk it was reading was partly rendered and a newer chunk is in flight.
C14_Witness ==
  /\ Event = "worklet:message" /\ Has(trace, "recv:clear")
  /\ worklet = "PCMPlayer._pullFrame"
  /\ lastOut # Null /\ lastOut.idx < lastOut.of
  /\ port # <<>> /\ port[1].type = "push"

Before(a, b) == a.seq < b.seq \/ (a.seq = b.seq /\ a.idx < b.idx)

\* C15: the samples rendered follow the order in which their chunks'
\* audio.delta events arrived and, inside a chunk, the order of the samples:
\* every sample a callback outputs comes after the one output before it
\* (in the same callback or an earlier one), whatever the generation, hence
\* also within one generation.
C15_RenderedInArrivalOrder ==
  [][ ProcessStep =>
        LET r == SelectSeq(out', IsPcm) IN
          /\ \A i \in 1..(Len(r) - 1) : Before(r[i], r[i + 1])
          /\ (lastOut # Null /\ r # <<>>) => Before(lastOut, r[1])
          /\ \A i \in 1..(Len(r) - 1) : r[i].gen <= r[i + 1].gen
    ]_vars

\* C15 witness: one callback has just rendered samples of two chunks of the
\* same generation, the earlier chunk first.
C15_Witness ==
  /\ Event = "worklet:process" /\ worklet = "PCMFeeder"
  /\ Len(out) >= 2 /\ IsPcm(out[1]) /\ IsPcm(out[2])
  /\ out[1].seq < out[2].seq /\ out[1].gen = out[2].gen /\ out[1].gen >= 1

AnimateStep == trace'[1] \in {"animate:start", "animate:end", "animate:none"}
StartStep == trace'[1] = "animate:start"
EndStep == trace'[1] = "animate:end"

\* C16: from the initial state, before any event, a start is emitted exactly
\* on a tick that completes attackFrames consecutive ticks with score above
\* thresholdRatio: none after attackFrames - 1 such ticks, one after
\* attackFrames.
C16_StartAfterAttackFrames ==
  [][ (AnimateStep /\ analyser /\ vadObs.last = "") =>
        (StartStep <=> vadObs'.loudRun >= attackFrames(variant))
    ]_vars

\* C17: while speaking, the VAD flips to not speaking, and emits end, exactly
\* on the tick that completes releaseFrames consecutive ticks with score
\* below 0.6 x thresholdRatio; a tick at or above that threshold restarts
\* the count (silenceHold) from zero.
C17_ReleaseAfterReleaseFrames ==
  [][ (AnimateStep /\ analyser /\ speaking) =>
        /\ ~speaking' <=> vadObs'.quietRun = releaseFrames(variant)
        /\ EndStep <=> ~speaking'
        /\ vadObs'.quietRun = 0 => silenceHold' = 0
        /\ speaking' => silenceHold' = vadObs'.quietRun
    ]_vars

\* C17 witness: the script VAD has just ended speech on its 100th quiet tick.
C17_Witness ==
  /\ Event = "animate:end" /\ variant = "script"
  /\ ~speaking /\ vadObs.quietRun = releaseFrames(variant)

\* C18: a tick emits start exactly when speaking flips from false to true,
\* end exactly when it flips from true to false, and otherwise nothing; so
\* the events alternate, the first one being a start.
C18_EdgeTriggeredAlternating ==
  [][ AnimateStep =>
        /\ StartStep <=> (~speaking /\ speaking')
        /\ EndStep <=> (speaking /\ ~speaking')
        /\ StartStep => vadObs.last \in {"", "end"}
        /\ EndStep => vadObs.last = "start"
    ]_vars

\* C18 witness: a second start, after a start and an end.
C18_Witness ==
  /\ Event = "animate:start" /\ speaking
  /\ vadObs.last = "start" /\ vadObs.prev = "end"

\* C19: an end comes at least releaseFrames ticks after the start before it,
\* and a start at least attackFrames ticks after the end before it, whatever
\* the signal.
C19_OscillationBounded ==
  [][ AnimateStep =>
        /\ EndStep => (vadObs.last = "start" /\ vadObs'.gap >= releaseFrames(variant))
        /\ (StartStep /\ vadObs.last = "end") => vadObs'.gap >= attackFrames(variant)
    ]_vars

\* C19 witness: the fastest oscillation: a start exactly attackFrames ticks
\* after an end.
C19_Witness ==
  /\ Event = "animate:start" /\ vadObs.prev = "end"
  /\ vadObs.gap = attackFrames(variant)

\* C20: a tick without input frame (no analyser) leaves the VAD state and
\* output as a tick of score 0 would.
C20_AbsentFrameIsSilentTick ==
  [][ (AnimateStep /\ ~analyser) =>
        LET v == vadDecision(0) IN
          /\ speaking' = v.speaking
          /\ speakHold' = v.speakHold
          /\ silenceHold' = v.silenceHold
          /\ trace'[1] = "animate:" \o v.change
    ]_vars


\* ------------------------------------------------------------------ C21
ConfigMsg == Sent("session.update")
AppendMsg == Sent("input_audio_buffer.append")
CreateMsg == Sent("response.create")
GatedMsgs == {AppendMsg, CommitMsg, CreateMsg, CancelMsg}
Connected == rt \in {"open", "closed"}

\* C21: a connection that has opened has sent session.update exactly once
\* (none before it opens), and every append, commit, response.create and
\* response.cancel that goes out follows that session.update.
C21_ConfigOnceAndFirst ==
  /\ [](cfgSent = IF Connected THEN 1 ELSE 0)
  /\ [][ \A i \in 1..Len(trace') :
           trace'[i] \in GatedMsgs =>
             \/ cfgSent = 1
             \/ \E j \in 1..(i - 1) : trace'[j] = ConfigMsg ]_vars

C21_Witness ==
  /\ cfgSent = 1
  /\ Has(trace, AppendMsg)


\* ------------------------------------------------------------------ C22
\* C22: once ws.onclose has run the capture node is released and the session
\* is marked closed, and no later step sends an append or a commit.
C22_QuietAfterClose ==
  /\ [](rt = "closed" => (~captureOn /\ ~wsOpen))
  /\ [][ rt = "closed" =>
           (~Has(trace', AppendMsg) /\ ~Has(trace', CommitMsg)) ]_vars

\* after the close, a silent stretch has run to the commit attempt of animate
C22_Witness ==
  /\ rt = "closed"
  /\ Event = "animate:none" /\ ~speaking /\ silenceFrames = 0

\* ------------------------------------------------------------------ C23
\* C23: the ids issued so far are 1..responseGen.  A response.created makes
\* active an id above all of them, nothing else changes the active id, and
\* the player's active id is the coordinator's in every state.
C23_GenerationsIncrease ==
  /\ [](playerGen = activeGen /\ activeGen <= responseGen)
  /\ [][ /\ responseGen' >= responseGen
         /\ trace'[1] = "ws:response.created" =>
              (activeGen' > responseGen /\ activeGen' = responseGen')
         /\ activeGen' # activeGen => trace'[1] = "ws:response.created" ]_vars

\* a second response.created has been handled
C23_Witness ==
  /\ Event = "ws:response.created"
  /\ activeGen = 2 /\ playerGen = 2

\* ------------------------------------------------------------------ C24
DroppedEvents ==
  {"ws:unparseable", "ws:audio.delta:InvalidCharacterError",
   "ws:audio.delta:RangeError"}

\* C24: the handling of a frame that is not JSON, or of an audio delta whose
\* payload does not decode, leaves the socket open and changes nothing of
\* the session, the generations, the player's port and the worklet queue,
\* so the next message meets the state it would have met without it.
C24_BadMessageDropped ==
  [][ trace'[1] \in DroppedEvents =>
        /\ sock' = "open" /\ rt' = "open"
        /\ UNCHANGED <<session, gens, port, feeder, play, captureOn, vad,
                       ttsPlaying, boot>> ]_vars

\* a valid audio delta is enqueued right after an undecodable one was dropped
C24_Witness ==
  /\ badSeen
  /\ Len(trace) = 2 /\ trace[1] = "ws:audio.delta" /\ trace[2] = Posted("push")

\* ------------------------------------------------------------------ C25
RECURSIVE Concat(_)
Concat(q) == IF q = <<>> THEN <<>> ELSE Head(q) \o Concat(Tail(q))
FrameSamples(frame) == Concat(frame)
FramedSamples(frames) ==
  Concat([k \in 1..Len(frames) |-> FrameSamples(frames[k])])
Active == wsOpen /\ sock = "open"

\* C25: for a capture callback that runs while the channel is open with a
\* session, the samples carried in acc followed by the samples of the block
\* are, in that order and each once, the samples of the frames it emits
\* followed by the samples left in acc; one append is sent per frame.
C25_NoSampleDropped ==
  /\ [](Len(acc) = accLen /\ accLen < SamplesPerFrame)
  /\ [][ (trace'[1] = "mic:block" /\ Active) =>
           /\ FramedSamples(lastFrames') \o acc' = acc \o InputBlock
           /\ Len(trace') = 1 + Len(lastFrames')
           /\ \A k \in 1..Len(lastFrames') :
                Len(lastFrames'[k]) = FrameSamples16k ]_vars

\* a callback emitted a frame from carried and new samples and carried on
C25_Witness ==
  /\ Event = "mic:block"
  /\ Len(lastFrames) = 1 /\ acc # <<>>
  /\ capSeq > CaptureBlock

\* ------------------------------------------------------------------ C26
Appends(tr) == Cardinality({i \in 1..Len(tr) : tr[i] = AppendMsg})

\* C26: while the session is open, appendedMsSinceCommit moves only with
\* what is sent: a step that sends a commit leaves it at 0, any other step
\* adds the duration of the append frames it sends (nothing if it sends
\* none); together with the 0 set at open this keeps it equal to the
\* duration appended since the last commit sent.
C26_CountsSentAppends ==
  [][ (wsOpen /\ wsOpen') =>
        appendedMsSinceCommit' =
          IF Has(trace', CommitMsg) THEN 0
          ELSE appendedMsSinceCommit + FrameMs * Appends(trace') ]_vars

\* ------------------------------------------------------------------ C27
\* C27: the worklet queue keeps a bound of its own: the chunks waiting
\* never fill the room the model gives the queue (MaxBuf, which stands for
\* the memory of the page), however pushes and render callbacks interleave.
C27_QueueBounded == Len(buffers) < MaxBuf

\* ------------------------------------------------------------------ C28
\* C28: a resampler called with equal rates returns its input, sample for
\* sample, whatever the input (the empty one included) and the rate.
C28_ResampleIdentity ==
  (rsOut # Null /\ rsIn.from = rsIn.to) => rsOut.out = rsIn.x

\* PCMPlayer.resampleLinear returned for equal rates and an input of full
\* length whose samples differ
C28_Witness ==
  /\ rsOut # Null /\ rsIn.from = rsIn.to
  /\ rsOut.fn = "PCMPlayer.resampleLinear"
  /\ Len(rsIn.x) = MaxSamples /\ rsIn.x[1] # rsIn.x[2]

\* ------------------------------------------------------------------ C30
\* C30: PCMPlayer.resampleLinear, called on a non-empty input with
\* different rates, blends every output sample from a source position that
\* is a number and from neighbours i0, i1 inside 0 .. length - 1.
C30_TapsInRange ==
  (/\ rsOut # Null /\ rsOut.fn = "PCMPlayer.resampleLinear"
   /\ rsIn.x # <<>> /\ rsIn.from # rsIn.to) =>
    \A i \in 1..Len(rsOut.taps) :
      /\ ~IsNaN(rsOut.taps[i].x)
      /\ rsOut.taps[i].i0 \in 0..(Len(rsIn.x) - 1)
      /\ rsOut.taps[i].i1 \in 0..(Len(rsIn.x) - 1)

\* ------------------------------------------------------------------ C29
\* C29: a pipeline that was waiting for its transcription, intent or TTS
\* request when the user started to speak never starts the playback of its
\* reply.
C29_BargedNeverPlays == barged \cap played = {}

\* the chunks the worklet holds: the one being read and those waiting
QueuedChunks ==
  {buffers[k] : k \in 1..Len(buffers)} \cup (IF cur = Null THEN {} ELSE {cur})

\* C31: the playback queue never holds audio of two responses at once, and
\* a chunk posted by an audio.delta step carries audio of the response
\* created last, never of its predecessor.
C31_OneResponseQueued ==
  /\ \A a, b \in QueuedChunks : a.of = b.of
  /\ (Event = "ws:audio.delta" /\ Has(trace, Posted("push")))
       => port[Len(port)].chunk.of = responseGen

\* the number of messages of one kind a step sent
Count(tr, e) == Cardinality({i \in 1..Len(tr) : tr[i] = e})

\* C32: in the script build, the handler of transcription.speech_stopped /
\* input_audio_buffer.collected on an open channel sends exactly one
\* response.create.
C32_OneCreatePerSpeechStopped ==
  (Event = "ws:speech_stopped" /\ variant = "script")
    => Count(trace, CreateMsg) = 1

\* a step in which onSpeechEnd stopped the recorder and uploadChunk issued
\* its /transcribe request
UploadStep == trace'[1] = "http:speech_end" /\ Len(pipes') > Len(pipes)

\* C33: once a barge-in has aborted the intent controller, the next
\* completed utterance still issues its /transcribe request with a signal
\* that is not aborted.
C33_LaterTurnsNotAborted ==
  [][(UploadStep /\ intentAbort \in abortedCtrls)
       => pipes'[Len(pipes')].signal \notin abortedCtrls']_vars

\* C34: the recorder runs only during detected speech: whenever the VAD is
\* not in the speaking state (onSpeechEnd was handled, or no speech began
\* yet), recording is false.
C34_RecorderOnlyDuringSpeech == ~vadSpeaking => ~recording

\* C35: when enabling the microphone failed on a gesture, the gesture
\* handler is armed again (its latch is released) so that a later gesture
\* retries.
C35_RearmedAfterFailure ==
  (variant = "part004" /\ Event = "gesture" /\ ~micActive) => ~micArmed

\* a process call of MicCaptureProcessorV2 that returned
MicProcessStep == trace'[1] = "micv2:process"

\* C36: MicCaptureProcessorV2 posts only frames of exactly frameLen
\* samples; the frames of a call followed by the samples left in the buffer
\* are the samples buffered before it followed by the samples the call
\* downsampled, in order; and fewer than frameLen samples stay buffered
\* after every call.
C36_FixedSizeFrames ==
  [][MicProcessStep =>
       /\ \A k \in 1..Len(mic'.frames) : Len(mic'.frames[k]) = mic.frameLen
       /\ Concat(mic'.frames) \o mic'.buf = mic.buf \o mic'.pushed
       /\ Len(mic'.buf) < mic.frameLen]_vars
\* one call of the generic resampler posted a frame and kept a remainder
C36_Witness ==
  /\ mic # Null /\ Event = "micv2:process"
  /\ ~mic.integerDecim
  /\ Len(mic.frames) >= 1 /\ mic.buf # <<>>

\* two timestamps of the turn are in order when both are set
InOrder(a, b) == (a # 0 /\ b # 0) => a <= b
\* the stage timestamps of the current turn, earliest stage first
Stages ==
  <<lt.turn.speechStartTime, lt.turn.speechStopEventTime,
    lt.turn.transcriptCompleteTime, lt.turn.firstTokenTime,
    lt.turn.firstAudioChunkTime>>

\* C37: whenever two stage timestamps of the current turn are both set, the
\* earlier stage's is not greater than the later stage's, and no latency
\* pushed to measurements or reported to the backend is negative.
C37_TimestampsSequential ==
  /\ \A i, j \in 1..Len(Stages) : i < j => InOrder(Stages[i], Stages[j])
  /\ \A r \in lt.rec \cup lt.report : r[2] >= 0

\* C38: when onFirstToken is called after onSpeechStart and
\* onSpeechStopEvent and no transcript event was delivered, it records an
\* LLM latency of the call's time minus the speech_stopped time.
C38_LlmLatencyFromSpeechStop ==
  [][(trace'[1] = "lt:onFirstToken" /\ lt.turn.speechStartTime # 0
        /\ lt.turn.speechStopEventTime # 0
        /\ lt.turn.transcriptCompleteTime = 0)
       => <<"llm_latency", lt.clock - lt.turn.speechStopEventTime>> \in lt'.rec]_vars

\* C39: in every state, so after every VAD tick, 0 <= speakHold <
\* attackFrames and 0 <= silenceHold < releaseFrames, speakHold is 0 while
\* speaking and silenceHold is 0 while not speaking.
C39_HoldCountersBounded ==
  /\ 0 <= speakHold /\ speakHold < attackFrames(variant)
  /\ 0 <= silenceHold /\ silenceHold < releaseFrames(variant)
  /\ speaking => speakHold = 0
  /\ ~speaking => silenceHold = 0
\* a tick while speaking left silenceHold one short of its limit
C39_Witness ==
  /\ Event = "animate:none"
  /\ speaking /\ silenceHold = releaseFrames(variant) - 1

\* C40: in every worklet variant each sample a render callback writes is a
\* zero or a sample read at a position inside the chunk it was read from.
C40_ReadsInsideChunk ==
  \A k \in 1..Len(out) :
    \/ out[k].val = "zero"
    \/ out[k].val = "pcm" /\ 1 <= out[k].idx /\ out[k].idx <= out[k].of

====
